---- MODULE Spec2Model ----
(***************************************************************************)
(* A model of the fast mapping pipeline of tr069-cel-mapper: the pattern   *)
(* compiler and tiered router (pkg/router), the key extractor              *)
(* (pkg/extractor), the transform engine (pkg/transform), the registry     *)
(* setters (pkg/registry), the object pool (pkg/pool), the entity store    *)
(* (pkg/types) and the orchestrator FastMapper (pkg/mapper).               *)
(*                                                                         *)
(* Strings are sequences of one-character strings, so that splitting,      *)
(* prefix/suffix tests and the byte-indexed trie are computed as the code  *)
(* computes them.                                                          *)
(***************************************************************************)
EXTENDS Integers, Sequences, FiniteSets, TLC

VARIABLES
    pats,      \* heap of *router.Pattern objects: sequence of records
    router,    \* FastRouter: exactMatches, prefixTree, suffixIndex, patterns
    rules,     \* FastMapper.rules: rule ID -> FastRule
    routed,    \* the FastRouter.Route call made on the router alone
    data,      \* MapStore.data: target -> key -> instance
    objs,      \* heap of entity instances: sequence of [type, f]
    pool,      \* ObjectPool: per type name, the instances in the reservoir
    cache,     \* FastTransform.cache: cache key -> result
    stats,     \* FastStats counters
    statsOn,   \* FastMapper.stats != nil (WithFastStats)
    handled,   \* the errors passed to FastMapper.errorHandler, in order
    ctx,       \* the cancellation signal: ctx.Err() != nil
    th,        \* the goroutines: program counter and locals of each
    batch,     \* the ProcessBatchContext call in progress
    reg,       \* the administration goroutine: AddRule, Reset, LoadRules
    hist       \* history of the run, read by the properties only

vars == <<pats, router, rules, routed, data, objs, pool, cache, stats,
          statsOn, handled, ctx, th, batch, reg, hist>>

routerVars == <<pats, router, rules>>
mapperVars == <<data, objs, pool, cache, stats, handled>>

-----------------------------------------------------------------------------
(* Strings *)

EmptyStr == <<>>

\* strings.HasPrefix / bytesHasPrefix: router.go:230-240
bytesHasPrefix(b, prefix) ==
    /\ Len(b) >= Len(prefix)
    /\ \A i \in 1..Len(prefix) : b[i] = prefix[i]

\* router.go:242-254
bytesHasSuffix(b, bLen, suffix) ==
    /\ bLen >= Len(suffix)
    /\ \A i \in 1..Len(suffix) : b[bLen - Len(suffix) + i] = suffix[i]

\* router.go:256-282
bytesContains(b, bLen, substr) ==
    /\ bLen >= Len(substr)
    /\ \/ Len(substr) = 0
       \/ \E i \in 1..(bLen - Len(substr) + 1) :
            \A j \in 1..Len(substr) : b[i + j - 1] = substr[j]

\* router.go:284-292
countDots(b, length) == Cardinality({i \in 1..length : b[i] = "."})

\* strings.Contains(path, "*") as used at router.go:163
ContainsStar(s) == \E i \in 1..Len(s) : s[i] = "*"

\* strings.LastIndexByte(path, '.'), zero-based, -1 when absent: router.go:80
LastIndexDot(s) ==
    IF \A i \in 1..Len(s) : s[i] # "." THEN -1
    ELSE (CHOOSE i \in 1..Len(s) :
            s[i] = "." /\ \A j \in (i+1)..Len(s) : s[j] # ".") - 1

\* strings.Split(s, "."): every dot separates, empty segments are kept
RECURSIVE Split(_)
Split(s) ==
    IF \A i \in 1..Len(s) : s[i] # "." THEN <<s>>
    ELSE LET i == CHOOSE k \in 1..Len(s) :
                    s[k] = "." /\ \A j \in 1..(k-1) : s[j] # "."
         IN <<SubSeq(s, 1, i-1)>> \o Split(SubSeq(s, i+1, Len(s)))

\* strings.Join(parts, ".")
RECURSIVE Join(_)
Join(parts) ==
    IF Len(parts) = 0 THEN EmptyStr
    ELSE IF Len(parts) = 1 THEN parts[1]
    ELSE parts[1] \o <<".">> \o Join(Tail(parts))

\* The loop of router.splitPathFast: i is the next byte (1-based), start the
\* first byte of the segment being read.
RECURSIVE splitLoop(_, _, _, _)
splitLoop(path, i, start, parts) ==
    IF i > Len(path)
    THEN IF start <= Len(path)
         THEN Append(parts, SubSeq(path, start, Len(path)))
         ELSE parts
    ELSE IF path[i] = "."
    THEN splitLoop(path, i+1, i+1, Append(parts, SubSeq(path, start, i-1)))
    ELSE splitLoop(path, i+1, start, parts)

\* router.go:208-228
splitPathFast(path) == splitLoop(path, 1, 1, <<>>)

-----------------------------------------------------------------------------
(* Pattern compiler: router.go:157-206 *)

\* The index (zero-based) of the first and the last "*" segment, -1 if none.
FirstWildcard(parts) ==
    IF \A i \in 1..Len(parts) : parts[i] # <<"*">> THEN -1
    ELSE (CHOOSE i \in 1..Len(parts) :
            parts[i] = <<"*">> /\ \A j \in 1..(i-1) : parts[j] # <<"*">>) - 1

LastWildcard(parts) ==
    IF \A i \in 1..Len(parts) : parts[i] # <<"*">> THEN -1
    ELSE (CHOOSE i \in 1..Len(parts) :
            parts[i] = <<"*">> /\ \A j \in (i+1)..Len(parts) : parts[j] # <<"*">>) - 1

\* The zero-based positions of the "*" segments, ascending.
RECURSIVE WildcardPositions(_, _)
WildcardPositions(parts, i) ==
    IF i > Len(parts) THEN <<>>
    ELSE (IF parts[i] = <<"*">> THEN <<i - 1>> ELSE <<>>)
         \o WildcardPositions(parts, i + 1)

\* A Pattern as the struct literal of router.go:158-161 leaves it.
BlankPattern(path) ==
    [ID |-> "", OriginalPath |-> path, Prefix |-> EmptyStr,
     Suffix |-> EmptyStr, Contains |-> <<>>, Parts |-> <<>>,
     MinParts |-> 0, MaxParts |-> 0,
     WildcardPos |-> <<>>, WildcardPosNil |-> TRUE,
     Entity |-> "", Field |-> "", Priority |-> 0]

\* router.go:157-206
CompilePattern(path) ==
    IF ~ContainsStar(path)
    THEN [BlankPattern(path) EXCEPT !.Prefix = path]
    ELSE LET parts == Split(path)
             fw == FirstWildcard(parts)
             lw == LastWildcard(parts)
         IN [BlankPattern(path) EXCEPT
               !.Parts = parts, !.MinParts = Len(parts), !.MaxParts = Len(parts),
               !.WildcardPos = WildcardPositions(parts, 1),
               !.WildcardPosNil = FALSE,
               !.Prefix = IF fw > 0
                          THEN Join(SubSeq(parts, 1, fw)) \o <<".">>
                          ELSE EmptyStr,
               !.Suffix = IF lw >= 0 /\ lw < Len(parts) - 1
                          THEN <<".">> \o Join(SubSeq(parts, lw + 2, Len(parts)))
                          ELSE EmptyStr]

-----------------------------------------------------------------------------
(* Trie: trie.go.  The trie is held as the function from each inserted     *)
(* prefix to the patterns of its node; a node exists for every prefix of   *)
(* an inserted prefix, and isEnd holds exactly at the inserted ones.       *)

NewTrie == <<>>

TrieHasNode(t, s) == \E p \in DOMAIN t : bytesHasPrefix(p, s)
TrieIsEnd(t, s) == s \in DOMAIN t
TrieNodePatterns(t, s) == IF s \in DOMAIN t THEN t[s] ELSE <<>>

\* trie.go:27-44
Insert(t, prefix, p) ==
    IF prefix \in DOMAIN t
    THEN [t EXCEPT ![prefix] = Append(@, p)]
    ELSE (prefix :> <<p>>) @@ t

\* The loop of Trie.Search, trie.go:53-69: the node reached is the one of
\* the first i-1 bytes of the path.
RECURSIVE searchLoop(_, _, _, _)
searchLoop(t, path, i, results) ==
    LET node == SubSeq(path, 1, i - 1)
        here == results \o TrieNodePatterns(t, node)
    IN IF i > Len(path) THEN here
       ELSE IF ~TrieHasNode(t, SubSeq(path, 1, i))
       THEN here \o TrieNodePatterns(t, node)
       ELSE searchLoop(t, path, i + 1, here)

\* trie.go:46-72
Search(t, path) == searchLoop(t, path, 1, <<>>)

-----------------------------------------------------------------------------
(* Router: router.go:24-155.  Patterns are held by reference (an index     *)
(* into the heap pats), as the code holds *Pattern.                        *)

NewRouter ==
    [exactMatches |-> <<>>, prefixTree |-> NewTrie,
     suffixIndex |-> <<>>, patterns |-> <<>>]

\* router.go:141-155
matchParts(path, p) ==
    LET parts == splitPathFast(path)
    IN /\ Len(parts) = Len(p.Parts)
       /\ \A i \in 1..Len(p.Parts) :
            p.Parts[i] = <<"*">> \/ p.Parts[i] = parts[i]

\* The mutant of matchPatternFast: the literal suffix is not verified.
matchPatternFastNoSuffix(pathBytes, pathLen, p) ==
    /\ p.Prefix # EmptyStr => bytesHasPrefix(pathBytes, p.Prefix)
    /\ \A i \in 1..Len(p.Contains) : bytesContains(pathBytes, pathLen, p.Contains[i])
    /\ IF Len(p.Parts) > 0 THEN matchParts(pathBytes, p)
       ELSE LET partCount == countDots(pathBytes, pathLen) + 1
            IN /\ ~(p.MinParts > 0 /\ partCount < p.MinParts)
               /\ ~(p.MaxParts > 0 /\ partCount > p.MaxParts)

\* router.go:101-139
matchPatternFast(pathBytes, pathLen, p) ==
    /\ p.Prefix # EmptyStr =>
          (pathLen >= Len(p.Prefix) /\ bytesHasPrefix(pathBytes, p.Prefix))
    /\ p.Suffix # EmptyStr =>
          (pathLen >= Len(p.Suffix) /\ bytesHasSuffix(pathBytes, pathLen, p.Suffix))
    /\ \A i \in 1..Len(p.Contains) : bytesContains(pathBytes, pathLen, p.Contains[i])
    /\ IF Len(p.Parts) > 0 THEN matchParts(pathBytes, p)
       ELSE LET partCount == countDots(pathBytes, pathLen) + 1
            IN /\ ~(p.MinParts > 0 /\ partCount < p.MinParts)
               /\ ~(p.MaxParts > 0 /\ partCount > p.MaxParts)

\* router.go:41-59
AddPattern(r, heap, ref) ==
    LET p == heap[ref]
        inTrie == p.Prefix # EmptyStr /\ Len(p.WildcardPos) > 0
        inSuffix == p.Suffix # EmptyStr
    IN IF p.Prefix # EmptyStr /\ p.WildcardPosNil
       THEN [r EXCEPT !.exactMatches = (p.OriginalPath :> ref) @@ @]
       ELSE [r EXCEPT
               !.prefixTree = IF inTrie THEN Insert(@, p.Prefix, ref) ELSE @,
               !.suffixIndex = IF ~inSuffix THEN @
                               ELSE IF p.Suffix \in DOMAIN @
                               THEN [@ EXCEPT ![p.Suffix] = Append(@, ref)]
                               ELSE (p.Suffix :> <<ref>>) @@ @,
               !.patterns = Append(@, ref)]

\* The loops of router.go:73-95: the first reference of a candidate list,
\* from position i on, whose pattern passes the full match predicate; 0 when
\* none does.
RECURSIVE firstMatchLoop(_, _, _, _)
firstMatchLoop(heap, cands, path, i) ==
    IF i > Len(cands) THEN 0
    ELSE IF matchPatternFast(path, Len(path), heap[cands[i]]) THEN cands[i]
    ELSE firstMatchLoop(heap, cands, path, i + 1)

FirstMatch(heap, cands, path) == firstMatchLoop(heap, cands, path, 1)

NoRoute == [ok |-> FALSE, pat |-> 0, tier |-> "none"]

\* No direct Route call was made yet
NoRouted == [done |-> FALSE, path |-> EmptyStr, res |-> NoRoute]

\* router.go:61-99.  tier names the return statement taken.
Route(r, heap, path) ==
    LET lastDot == LastIndexDot(path)
        suffix == SubSeq(path, lastDot + 1, Len(path))
        viaTrie == FirstMatch(heap, Search(r.prefixTree, path), path)
        viaSuffix == IF lastDot > 0 /\ suffix \in DOMAIN r.suffixIndex
                     THEN FirstMatch(heap, r.suffixIndex[suffix], path)
                     ELSE 0
        viaScan == FirstMatch(heap, r.patterns, path)
    IN IF path \in DOMAIN r.exactMatches
       THEN [ok |-> TRUE, pat |-> r.exactMatches[path], tier |-> "exact"]
       ELSE IF viaTrie # 0
       THEN [ok |-> TRUE, pat |-> viaTrie, tier |-> "prefix"]
       ELSE IF viaSuffix # 0
       THEN [ok |-> TRUE, pat |-> viaSuffix, tier |-> "suffix"]
       ELSE IF viaScan # 0
       THEN [ok |-> TRUE, pat |-> viaScan, tier |-> "fallback"]
       ELSE NoRoute

-----------------------------------------------------------------------------
(* Values.  A Go value of dynamic type string, int64 or bool; every field  *)
(* of the record is always present so that any two values can be compared. *)

StrV(s) == [k |-> "string", s |-> s, n |-> 0, b |-> FALSE]
IntV(n) == [k |-> "int64", s |-> EmptyStr, n |-> n, b |-> FALSE]
BoolV(b) == [k |-> "bool", s |-> EmptyStr, n |-> 0, b |-> b]

Ok(v) == [err |-> "", v |-> v]
Fail(e, v) == [err |-> e, v |-> v]

UpperLetters == <<"A","B","C","D","E","F","G","H","I","J","K","L","M",
                  "N","O","P","Q","R","S","T","U","V","W","X","Y","Z">>
LowerLetters == <<"a","b","c","d","e","f","g","h","i","j","k","l","m",
                  "n","o","p","q","r","s","t","u","v","w","x","y","z">>
DigitChars == <<"0","1","2","3","4","5","6","7","8","9">>

IsDigit(c) == \E i \in 1..10 : DigitChars[i] = c
DigitVal(c) == (CHOOSE i \in 1..10 : DigitChars[i] = c) - 1
IsSpace(c) == c \in {" ", "\t", "\n", "\r"}

ToLowerChar(c) ==
    IF \E i \in 1..26 : UpperLetters[i] = c
    THEN LowerLetters[CHOOSE i \in 1..26 : UpperLetters[i] = c]
    ELSE c

\* strings.ToLower
StrLower(s) == [i \in 1..Len(s) |-> ToLowerChar(s[i])]

\* strings.ReplaceAll(s, c, "") for a one-byte c
RECURSIVE RemoveChar(_, _)
RemoveChar(s, c) ==
    IF Len(s) = 0 THEN EmptyStr
    ELSE (IF s[1] = c THEN EmptyStr ELSE <<s[1]>>) \o RemoveChar(Tail(s), c)

\* strings.TrimSpace
TrimSpace(s) ==
    IF \A i \in 1..Len(s) : IsSpace(s[i]) THEN EmptyStr
    ELSE LET lo == CHOOSE i \in 1..Len(s) :
                     ~IsSpace(s[i]) /\ \A j \in 1..(i-1) : IsSpace(s[j])
             hi == CHOOSE i \in 1..Len(s) :
                     ~IsSpace(s[i]) /\ \A j \in (i+1)..Len(s) : IsSpace(s[j])
         IN SubSeq(s, lo, hi)

\* The value of a string of decimal digits.
RECURSIVE DigitsVal(_)
DigitsVal(ds) ==
    IF Len(ds) = 0 THEN 0
    ELSE 10 * DigitsVal(SubSeq(ds, 1, Len(ds) - 1)) + DigitVal(ds[Len(ds)])

\* strconv.ParseInt(s, 10, 64): an optional sign and at least one decimal
\* digit.  The inputs of the model have at most nine digits, so the range
\* error of a 64-bit result does not arise.
ParseInt(s) ==
    LET signed == Len(s) > 0 /\ s[1] \in {"+", "-"}
        ds == IF signed THEN Tail(s) ELSE s
    IN IF Len(ds) = 0 \/ \E i \in 1..Len(ds) : ~IsDigit(ds[i])
       THEN Fail("strconv.ParseInt: invalid syntax", IntV(0))
       ELSE Ok(IntV(IF signed /\ s[1] = "-" THEN 0 - DigitsVal(ds) ELSE DigitsVal(ds)))

\* strconv.ParseFloat(s, 64) followed by int64(f), for the decimal form
\* [sign] digits [. digits] (the inputs of the model carry no exponent,
\* hexadecimal form, infinity or NaN): the integer part, truncated to zero.
ParseFloatTrunc(s) ==
    LET signed == Len(s) > 0 /\ s[1] \in {"+", "-"}
        body == IF signed THEN Tail(s) ELSE s
        dots == {i \in 1..Len(body) : body[i] = "."}
        dot == IF dots = {} THEN Len(body) + 1 ELSE CHOOSE i \in dots : TRUE
        ip == SubSeq(body, 1, dot - 1)
        fp == SubSeq(body, dot + 1, Len(body))
        wellFormed == /\ Cardinality(dots) <= 1
                      /\ Len(ip) + Len(fp) > 0
                      /\ \A i \in 1..Len(ip) : IsDigit(ip[i])
                      /\ \A i \in 1..Len(fp) : IsDigit(fp[i])
    IN IF ~wellFormed
       THEN Fail("strconv.ParseFloat: invalid syntax", IntV(0))
       ELSE Ok(IntV(IF signed /\ s[1] = "-" THEN 0 - DigitsVal(ip) ELSE DigitsVal(ip)))

\* strconv.ParseBool
ParseBool(s) ==
    IF s \in {<<"1">>, <<"t">>, <<"T">>, <<"T","R","U","E">>,
              <<"t","r","u","e">>, <<"T","r","u","e">>}
    THEN Ok(BoolV(TRUE))
    ELSE IF s \in {<<"0">>, <<"f">>, <<"F">>, <<"F","A","L","S","E">>,
                   <<"f","a","l","s","e">>, <<"F","a","l","s","e">>}
    THEN Ok(BoolV(FALSE))
    ELSE Fail("strconv.ParseBool: invalid syntax", BoolV(FALSE))

\* strconv.Itoa / fmt.Sprintf("%v", n) of a non-negative or negative integer
RECURSIVE NatStr(_)
NatStr(n) ==
    IF n < 10 THEN <<DigitChars[n + 1]>>
    ELSE NatStr(n \div 10) \o <<DigitChars[(n % 10) + 1]>>

IntStr(n) == IF n < 0 THEN <<"-">> \o NatStr(0 - n) ELSE NatStr(n)

-----------------------------------------------------------------------------
(* Transform engine: transform.go *)

IsHexLower(c) == IsDigit(c) \/ c \in {"a", "b", "c", "d", "e", "f"}

\* transform.go:47-74
MacNormalize(value) ==
    LET mac == RemoveChar(RemoveChar(RemoveChar(StrLower(value), ":"), "-"), ".")
    IN IF Len(mac) # 12 THEN Ok(StrV(value))
       ELSE IF \E i \in 1..12 : ~IsHexLower(mac[i]) THEN Ok(StrV(value))
       ELSE Ok(StrV(<<mac[1], mac[2], ":", mac[3], mac[4], ":", mac[5], mac[6], ":",
                      mac[7], mac[8], ":", mac[9], mac[10], ":", mac[11], mac[12]>>))

\* transform.go:86-97
ToBool(value) ==
    LET v == StrLower(TrimSpace(value))
    IN IF v \in {<<"t","r","u","e">>, <<"1">>, <<"y","e","s">>, <<"o","n">>,
                 <<"e","n","a","b","l","e","d">>}
       THEN Ok(BoolV(TRUE))
       ELSE IF v \in {<<"f","a","l","s","e">>, <<"0">>, <<"n","o">>, <<"o","f","f">>,
                      <<"d","i","s","a","b","l","e","d">>}
       THEN Ok(BoolV(FALSE))
       ELSE ParseBool(v)

\* transform.go:99-115
ToInt(value) ==
    LET t == TrimSpace(value)
        v == RemoveChar(t, ",")
        f == ParseFloatTrunc(v)
    IN IF t = EmptyStr THEN Ok(IntV(0))
       ELSE IF (\E i \in 1..Len(v) : v[i] = ".") /\ f.err = "" THEN f
       ELSE ParseInt(v)

\* The names of the table transformers (transform.go:12-22) that the rules
\* of the model use.
MacNormalizeName == <<"m","a","c","_","n","o","r","m","a","l","i","z","e">>
BoolName == <<"b","o","o","l">>
IntName == <<"i","n","t">>

\* transform.go:39-45
Apply(name, value) ==
    IF name = MacNormalizeName THEN MacNormalize(value)
    ELSE IF name = BoolName THEN ToBool(value)
    ELSE IF name = IntName THEN ToInt(value)
    ELSE Ok(StrV(value))

\* The cache key of transform.go:191
CacheKey(name, value) == name \o <<":">> \o value

\* transform.go:190-201: the result and the cache afterwards.
Transform(c, name, value) ==
    LET key == CacheKey(name, value)
        r == Apply(name, value)
    IN IF key \in DOMAIN c
       THEN [res |-> Ok(c[key]), cache |-> c]
       ELSE [res |-> r,
             cache |-> IF r.err = "" THEN (key :> r.v) @@ c ELSE c]

-----------------------------------------------------------------------------
(* Type registry: registry.go.  The registered types are those of          *)
(* examples/fast/main.go: host and wifi, with the fields of the structs    *)
(* Host and Wifi.  int is 64 bits wide.                                    *)

FieldTypes ==
    [host |-> [MACAddress |-> "string", IPAddress |-> "string",
               HostName |-> "string", Active |-> "bool",
               InterfaceType |-> "string"],
     wifi |-> [SSID |-> "string", Password |-> "string", Channel |-> "int",
               Band |-> "string", Enabled |-> "bool"]]

\* Registry.types after main.go:42-45 (the types the rules of the model name)
RegisteredTypes == DOMAIN FieldTypes

\* reflect.Zero of a field type
Zero(fieldType) ==
    IF fieldType = "string" THEN StrV(EmptyStr)
    ELSE IF fieldType = "int" THEN IntV(0)
    ELSE BoolV(FALSE)

\* TypeInfo.Factory: a fresh &Host{} or &Wifi{}
Factory(type) ==
    [type |-> type,
     f |-> [fld \in DOMAIN FieldTypes[type] |-> Zero(FieldTypes[type][fld])]]

\* registry.go:272-283
toString(v) ==
    IF v.k = "string" THEN Ok(StrV(v.s))
    ELSE IF v.k = "int64" THEN Ok(StrV(IntStr(v.n)))
    ELSE Ok(StrV(IF v.b THEN <<"t","r","u","e">> ELSE <<"f","a","l","s","e">>))

\* The width of int64 and uint64 in bits.  The conversions between the two
\* and the overflow test depend on the width only through 2^width, and are
\* checked on words of this width.
WordBits == 6

RECURSIVE Pow2(_)
Pow2(n) == IF n = 0 THEN 1 ELSE 2 * Pow2(n - 1)

\* A Go value of dynamic type uint64
UintV(n) == [k |-> "uint64", s |-> EmptyStr, n |-> n, b |-> FALSE]

\* The conversion int64(x) of a uint64 x: the same bits read as a signed
\* word
Int64OfUint64(x) == IF x >= Pow2(WordBits - 1) THEN x - Pow2(WordBits) ELSE x

\* registry.go:285-316
toInt64(v) ==
    IF v.k = "int64" THEN Ok(IntV(v.n))
    ELSE IF v.k = "uint64" THEN Ok(IntV(Int64OfUint64(v.n)))
    ELSE IF v.k = "string" THEN ParseInt(v.s)
    ELSE Fail("cannot convert bool to int64", IntV(0))

\* reflect.Value.OverflowInt for a signed field of the given width
OverflowInt(bits, i) == i < 0 - Pow2(bits - 1) \/ i > Pow2(bits - 1) - 1

\* registry.go:169-177: the case of a signed integer field of the given
\* width
setIntField(bits, value) ==
    LET r == toInt64(value)
    IN IF r.err # "" THEN r
       ELSE IF OverflowInt(bits, r.v.n) THEN Fail("integer overflow", r.v)
       ELSE r

\* registry.go:373-386
toBool(v) ==
    IF v.k = "bool" THEN Ok(BoolV(v.b))
    ELSE IF v.k = "string" THEN ParseBool(v.s)
    ELSE Ok(BoolV(v.n # 0))

\* registry.go:136-221: the error, and the value the field is set to when
\* there is none.  A value of the field's own type is assigned directly;
\* an int field never overflows on an int64.
setFieldValue(fieldType, value) ==
    IF fieldType = "string" /\ value.k = "string" THEN Ok(value)
    ELSE IF fieldType = "bool" /\ value.k = "bool" THEN Ok(value)
    ELSE IF fieldType = "string" THEN toString(value)
    ELSE IF fieldType = "int" THEN toInt64(value)
    ELSE toBool(value)

\* Whether TypeInfo.Setters has the field: registry.go:97-131
HasSetter(type, field) == field \in DOMAIN FieldTypes[type]

\* The mutant of Setter: a field that was assigned before keeps its value.
SetterKeepsFirst(obj, field, value) ==
    LET r == setFieldValue(FieldTypes[obj.type][field], value)
    IN [err |-> r.err,
        obj |-> IF r.err = "" /\ obj.f[field] = Zero(FieldTypes[obj.type][field])
                THEN [obj EXCEPT !.f[field] = r.v] ELSE obj]

\* The setter closure of registry.go:107-123 on an instance: the error and
\* the instance afterwards.
Setter(obj, field, value) ==
    LET r == setFieldValue(FieldTypes[obj.type][field], value)
    IN [err |-> r.err,
        obj |-> IF r.err = "" THEN [obj EXCEPT !.f[field] = r.v] ELSE obj]

-----------------------------------------------------------------------------
(* Key extractor: the package extractor *)

\* The loop of extractor.splitPathFast (router.go:433-455): an empty segment
\* is not appended.
RECURSIVE extSplitLoop(_, _, _, _)
extSplitLoop(path, i, start, parts) ==
    IF i > Len(path)
    THEN IF start <= Len(path)
         THEN Append(parts, SubSeq(path, start, Len(path)))
         ELSE parts
    ELSE IF path[i] = "."
    THEN extSplitLoop(path, i+1, i+1,
                      IF i > start THEN Append(parts, SubSeq(path, start, i-1))
                      ELSE parts)
    ELSE extSplitLoop(path, i+1, start, parts)

\* router.go:423-431: the memo pathCache returns what splitPathFast returned
\* for the same path
splitPathCached(path) == extSplitLoop(path, 1, 1, <<>>)

IndexExtractor(position, prefix) ==
    [kind |-> "index", Position |-> position, Prefix |-> prefix, Value |-> EmptyStr]
ValueExtractor ==
    [kind |-> "value", Position |-> 0, Prefix |-> EmptyStr, Value |-> EmptyStr]
StaticExtractor(value) ==
    [kind |-> "static", Position |-> 0, Prefix |-> EmptyStr, Value |-> value]

\* IndexExtractor.Extract (router.go:316-325), ValueExtractor.Extract
\* (329-331), StaticExtractor.Extract (362-364)
Extract(e, path, value) ==
    IF e.kind = "value" THEN value
    ELSE IF e.kind = "static" THEN e.Value
    ELSE LET parts == splitPathCached(path)
         IN IF e.Position < 0 \/ e.Position >= Len(parts) THEN EmptyStr
            ELSE IF e.Prefix # EmptyStr THEN e.Prefix \o parts[e.Position + 1]
            ELSE parts[e.Position + 1]

-----------------------------------------------------------------------------
(* Entity store: MapStore, part_000:75-150.  Every method holds s.mu for   *)
(* its whole body, so each is one step.                                    *)

NewMapStore == <<>>

StoreHas(d, target, key) == target \in DOMAIN d /\ key \in DOMAIN d[target]

\* The mutant of StoreUpsert: the candidate is installed whether or not the
\* key is present.
StoreUpsertOverwrite(d, target, key, cand) ==
    LET group == IF target \in DOMAIN d THEN d[target] ELSE <<>>
    IN [data |-> (target :> ((key :> cand) @@ group)) @@ d, obj |-> cand]

\* part_000:86-102: the store afterwards and the instance returned; cand is
\* what factory() returns.
StoreUpsert(d, target, key, cand) ==
    LET group == IF target \in DOMAIN d THEN d[target] ELSE <<>>
    IN IF key \in DOMAIN group
       THEN [data |-> d, obj |-> group[key]]
       ELSE [data |-> (target :> ((key :> cand) @@ group)) @@ d, obj |-> cand]

\* part_000:104-114: 0 stands for (nil, false)
StoreGet(d, target, key) == IF StoreHas(d, target, key) THEN d[target][key] ELSE 0

\* part_000:116-129: the snapshot copy; the empty function stands for nil
StoreGetAll(d, target) == IF target \in DOMAIN d THEN d[target] ELSE <<>>

\* The mutant of StoreClear: the map is kept.
StoreClearKeeps(d) == d

\* part_000:145-150
StoreClear(d) == NewMapStore

\* The instances the store holds
StoreInstances(d) == UNION {{d[t][k] : k \in DOMAIN d[t]} : t \in DOMAIN d}

-----------------------------------------------------------------------------
(* Object pool: pool.go.  A sync.Pool reservoir is the set of instances    *)
(* put and not yet taken; its Get hands out one of them or, finding none   *)
(* in reach, a new instance from New.                                      *)

\* The mutant of resetObject: the fields are left as they are.
resetObjectKeeps(obj) == obj

\* pool.go:54-71: every field of the struct types is exported and settable
resetObject(obj) ==
    [obj EXCEPT !.f = [fld \in DOMAIN obj.f |-> Zero(FieldTypes[obj.type][fld])]]

-----------------------------------------------------------------------------
(* Bounds of the model *)

\* The goroutines that call Process or the store concurrently
NThreads == 2
\* The Process calls of one run of concurrent single-item ingestion
MaxCalls == 3

Threads == 1..NThreads

-----------------------------------------------------------------------------
(* The rule set and the input items *)

HostPrefix == <<"h","o","s","t",":">>
WifiPrefix == <<"w","i","f","i",":">>

\* The rules added before processing begins, in the manner of setupHostRules
\* and setupWifiRules (examples/fast/main.go:117-215): the text compiled by
\* CompilePattern and the FastRule fields.  The key of a host is "host:"
\* and segment 3 of the path (main.go:144).  wifi_raw writes an int field
\* without a transform; ghost_0 names an entity type that is not registered.
RuleSetup ==
    << [ID |-> "host_5", text |-> <<"D","e","v","i","c","e",".","H","o","s","t","s",".","H","o","s","t",".","*",".","P","h","y","s","A","d","d","r","e","s","s">>,
        Entity |-> "host", Field |-> "MACAddress", Transform |-> MacNormalizeName,
        Extractor |-> IndexExtractor(3, HostPrefix)],
       [ID |-> "host_8", text |-> <<"D","e","v","i","c","e",".","H","o","s","t","s",".","H","o","s","t",".","*",".","A","c","t","i","v","e">>,
        Entity |-> "host", Field |-> "Active", Transform |-> BoolName,
        Extractor |-> IndexExtractor(3, HostPrefix)],
       [ID |-> "wifi_raw", text |-> <<"D","e","v","i","c","e",".","W","i","F","i",".","R","a","d","i","o",".","*",".","C","h","a","n","n","e","l">>,
        Entity |-> "wifi", Field |-> "Channel", Transform |-> EmptyStr,
        Extractor |-> IndexExtractor(3, WifiPrefix)],
       [ID |-> "wifi_1", text |-> <<"D","e","v","i","c","e",".","W","i","F","i",".","R","a","d","i","o",".","1",".","C","h","a","n","n","e","l">>,
        Entity |-> "wifi", Field |-> "Channel", Transform |-> IntName,
        Extractor |-> StaticExtractor(<<"d","e","f","a","u","l","t">>)],
       [ID |-> "ghost_0", text |-> <<"D","e","v","i","c","e",".","G","h","o","s","t",".","*",".","N","a","m","e">>,
        Entity |-> "ghost", Field |-> "Name", Transform |-> EmptyStr,
        Extractor |-> IndexExtractor(2, EmptyStr)] >>

\* The (path, value) pairs offered to Process
Items ==
    << [path |-> <<"D","e","v","i","c","e",".","H","o","s","t","s",".","H","o","s","t",".","1",".","P","h","y","s","A","d","d","r","e","s","s">>, value |-> <<"1","1","-","2","2","-","3","3","-","4","4","-","5","5","-","6","6">>],
       [path |-> <<"D","e","v","i","c","e",".","H","o","s","t","s",".","H","o","s","t",".","1",".","A","c","t","i","v","e">>, value |-> <<"1">>],
       [path |-> <<"D","e","v","i","c","e",".","H","o","s","t","s",".","H","o","s","t",".","1",".","A","c","t","i","v","e">>, value |-> <<"m","a","y","b","e">>],
       [path |-> <<"D","e","v","i","c","e",".","W","i","F","i",".","R","a","d","i","o",".","2",".","C","h","a","n","n","e","l">>, value |-> <<"6">>],
       [path |-> <<"D","e","v","i","c","e",".","W","i","F","i",".","R","a","d","i","o",".","2",".","C","h","a","n","n","e","l">>, value |-> <<"a","b","c">>],
       [path |-> <<"D","e","v","i","c","e",".","W","i","F","i",".","R","a","d","i","o",".","1",".","C","h","a","n","n","e","l">>, value |-> <<"1",",","2","0","0",".","5">>],
       [path |-> <<"D","e","v","i","c","e",".","U","n","k","n","o","w","n">>, value |-> <<"x">>],
       [path |-> <<"D","e","v","i","c","e",".","G","h","o","s","t",".","1",".","N","a","m","e">>, value |-> <<"x">>],
       [path |-> <<"D","e","v","i","c","e",".","H","o","s","t","s",".","H","o","s","t",".","2",".","P","h","y","s","A","d","d","r","e","s","s">>, value |-> <<"A","A",":","B","B",":","C","C",":","D","D",":","E","E",":","F","F">>],
       [path |-> <<"D","e","v","i","c","e",".","H","o","s","t","s",".","H","o","s","t",".","1",".","P","h","y","s","A","d","d","r","e","s","s">>, value |-> <<"n","/","a">>] >>

-----------------------------------------------------------------------------
(* Rule registration: FastMapper.AddRule, part_001:89-96 *)

NewRules == <<>>

\* The registration state of a mapper: the pattern heap, the router and the
\* rule table.
NewRegistration == [pats |-> <<>>, router |-> NewRouter, rules |-> NewRules]

\* part_001:89-96.  rule.Pattern is a reference into the heap.
AddRule(m, rule) ==
    LET heap == [m.pats EXCEPT ![rule.Pattern].ID = rule.ID]
    IN [pats |-> heap,
        router |-> AddPattern(m.router, heap, rule.Pattern),
        rules |-> (rule.ID :> rule) @@ m.rules]

\* The FastRule literal of setupHostRules (main.go:146-153) for the entry r
\* of RuleSetup, with the compiled pattern at ref
FastRuleOf(r, ref) ==
    [ID |-> r.ID, Pattern |-> ref, Entity |-> r.Entity, Field |-> r.Field,
     Transform |-> r.Transform, Extractor |-> r.Extractor]

\* One iteration of the loop of setupHostRules (main.go:135-155): compile
\* the pattern, set its Entity and Field, and add the rule.
LoadRule(m, r) ==
    LET p == [CompilePattern(r.text) EXCEPT !.Entity = r.Entity, !.Field = r.Field]
        m1 == [m EXCEPT !.pats = Append(@, p)]
    IN AddRule(m1, FastRuleOf(r, Len(m1.pats)))

\* Mapper.LoadRules (part_000:369-381) on the rule list `loaded`: the new
\* list and the error.  Every target is checked before the list is replaced.
MapperLoadRules(loaded, rs) ==
    LET bad == { i \in 1..Len(rs) : rs[i].Target \notin RegisteredTypes }
    IN IF bad # {}
       THEN [rules |-> loaded, err |-> "target type not registered"]
       ELSE [rules |-> rs, err |-> ""]

RECURSIVE LoadRules(_, _, _)
LoadRules(m, rs, i) ==
    IF i > Len(rs) THEN m ELSE LoadRules(LoadRule(m, rs[i]), rs, i + 1)

\* The registration state once every rule of RuleSetup is added
Registered == LoadRules(NewRegistration, RuleSetup, 1)

-----------------------------------------------------------------------------
(* State *)

NewStats ==
    [ProcessedLines |-> 0, MatchedRules |-> 0, FailedRules |-> 0,
     CacheHits |-> 0, CacheMisses |-> 0, AllocCount |-> 0, ReuseCount |-> 0]

\* counter.Add(1) behind the test m.stats != nil
Bump(st, counter) == IF statsOn THEN [st EXCEPT ![counter] = @ + 1] ELSE st

\* ObjectPool after the Register calls of NewFast (part_001:81-84): one
\* empty reservoir for each registered type
NewPool == [t \in RegisteredTypes |-> {}]

IdleThread ==
    [pc |-> "idle", caller |-> "none", ctxErr |-> FALSE, item |-> 0,
     pos |-> 0, pat |-> 0, rule |-> "", key |-> EmptyStr,
     obj |-> 0, fresh |-> FALSE, existing |-> 0, final |-> StrV(EmptyStr),
     racing |-> {}, ret |-> ""]

\* No batch call was made yet.  queue is the position of the next item of
\* itemsChan, errChan the buffer of the error channel.
NoBatch ==
    [pc |-> "none", n |-> 0, off |-> 0, i |-> 0, queue |-> 0,
     errChan |-> <<>>, wg |-> 0, numWorkers |-> 0, ret |-> ""]

\* What the run has seen: the calls made, the Clear calls, the first
\* instance each Upsert race installed, the batch positions that were
\* started and that were skipped by a cancellation check, the errors the
\* workers offered to the error channel, in order, the instances a client
\* of the pool wrote to, whether a lookup raced with a write of the rule
\* table, the items the recorded calls were made with, and for each
\* pattern of the heap the rules that AddRule was called with for it, and
\* the arguments of the last direct Transform call, with whether any such
\* call had a ":" in its name, the arguments of the last direct Extract
\* call, and the field width and the argument of the last direct setter call
NewHist == [calls |-> 0, clears |-> 0, first |-> <<>>, skipped |-> {},
            started |-> {}, errs |-> <<>>, used |-> {}, raced |-> FALSE,
            called |-> {}, link |-> <<>>,
            tcall |-> [made |-> FALSE, name |-> <<>>, value |-> <<>>,
                       colon |-> FALSE],
            xcall |-> [made |-> FALSE, path |-> <<>>, pos |-> 0, prefix |-> <<>>],
            scall |-> [made |-> FALSE, bits |-> 0, kind |-> "", n |-> 0]]

ErrCanceled == "context canceled"

\* The administration goroutine before its first call.  next is the rule of
\* RuleSetup the next AddRule call adds; rule is the one being added;
\* quiet and calls0 record whether ProcessContext was at rest when Reset
\* began; set, loaded and loadErr are the argument of the last
\* Mapper.LoadRules call, Mapper.rules and the result of that call.
NewReg ==
    [pc |-> "idle", next |-> 1, rule |-> 0, quiet |-> FALSE, calls0 |-> 0,
     k |-> 0, resets |-> 0, loads |-> 0, set |-> <<>>, loaded |-> <<>>,
     loadErr |-> ""]

\* The state NewFast(reg, WithFastStats()) leaves (part_001:66-87,
\* main.go:47), with the rules of RuleSetup added
InitMapper ==
    /\ pats = Registered.pats
    /\ router = Registered.router
    /\ rules = Registered.rules
    /\ data = NewMapStore
    /\ objs = <<>>
    /\ pool = NewPool
    /\ cache = <<>>
    /\ stats = NewStats
    /\ statsOn = TRUE
    /\ handled = <<>>
    /\ routed = NoRouted
    /\ ctx = FALSE
    /\ th = [t \in Threads |-> IdleThread]
    /\ batch = NoBatch
    /\ reg = [NewReg EXCEPT !.next = Len(RuleSetup) + 1]
    /\ hist = NewHist

-----------------------------------------------------------------------------
(* FastMapper.ProcessContext, part_001:102-182, one goroutine t at a time. *)
(* A step ends where another goroutine can observe or change shared state: *)
(* the router, the rule table, the pool, the store, the transform cache    *)
(* and the instance's field.  The counters are atomics; the deferred       *)
(* ProcessedLines.Add(1) is taken with the returning step.                 *)

\* The arguments path and value of the call goroutine t is in: the item of
\* Items it was given
PathOf(t) == Items[th[t].item].path
ValueOf(t) == Items[th[t].item].value

\* The local `rule` of the call goroutine t is in (part_001:121): the
\* FastRule its lookup found.  Only the rule an AddRule call is writing can
\* have been found and not be in the table yet.
RuleOf(t) ==
    IF th[t].rule \in DOMAIN rules THEN rules[th[t].rule]
    ELSE FastRuleOf(RuleSetup[reg.rule], Len(pats))

\* The call returns err: its locals are gone, and the goroutine has the
\* result in "ret".
Returned(t, err) ==
    [IdleThread EXCEPT !.pc = "ret", !.ret = err, !.caller = th[t].caller,
                       !.ctxErr = th[t].ctxErr, !.item = th[t].item,
                       !.pos = th[t].pos]

\* The mutant of ProcRoute: a call whose path matches nothing is counted as
\* a processed line, like every other call.
ProcRouteCountsMiss(t) ==
    /\ th[t].pc = "route"
    /\ LET r == Route(router, pats, PathOf(t))
       IN IF ~r.ok
          THEN /\ stats' = Bump(Bump(stats, "CacheMisses"), "ProcessedLines")
               /\ th' = [th EXCEPT ![t] = Returned(t, "")]
          ELSE /\ stats' = Bump(stats, "MatchedRules")
               /\ th' = [th EXCEPT ![t].pc = "rule", ![t].pat = r.pat]
    /\ UNCHANGED <<reg, routerVars, routed, data, objs, pool, cache, statsOn,
                   handled, ctx, batch, hist>>

\* part_001:105-119
ProcRoute(t) ==
    /\ th[t].pc = "route"
    /\ LET r == Route(router, pats, PathOf(t))
       IN IF ~r.ok
          THEN /\ stats' = Bump(stats, "CacheMisses")
               /\ th' = [th EXCEPT ![t] = Returned(t, "")]
          ELSE /\ stats' = Bump(stats, "MatchedRules")
               /\ th' = [th EXCEPT ![t].pc = "rule", ![t].pat = r.pat]
    /\ UNCHANGED <<reg, routerVars, routed, data, objs, pool, cache, statsOn,
                   handled, ctx, batch, hist>>

\* The rule table as a lookup can find it.  The lookup takes no lock
\* (part_001:121), and AddRule writes the table under m.mu alone
\* (part_001:95): a lookup made while that write is under way is a data
\* race on the map, which finds the table as it was, finds it as it will be,
\* or stops the program ("concurrent map read and map write").
RuleTableViews ==
    IF reg.pc = "write"
    THEN {"before", "after", "fatal"}
    ELSE {"before"}

\* The table AddRule's write under way leaves
RuleTableAfter ==
    LET r == RuleSetup[reg.rule]
    IN (r.ID :> FastRuleOf(r, Len(pats))) @@ rules

\* part_001:121-126
ProcRule(t) ==
    /\ th[t].pc = "rule"
    /\ \E view \in RuleTableViews :
         LET id == pats[th[t].pat].ID
             table == IF view = "after" THEN RuleTableAfter ELSE rules
         IN IF view = "fatal"
            THEN /\ th' = [th EXCEPT ![t].pc = "fatal"]
                 /\ stats' = stats
            ELSE IF id \notin DOMAIN table
            THEN /\ th' = [th EXCEPT ![t] = Returned(t, "rule not found")]
                 /\ stats' = Bump(stats, "ProcessedLines")
            ELSE /\ th' = [th EXCEPT ![t].pc = "get", ![t].rule = id,
                             ![t].key = Extract(table[id].Extractor,
                                                PathOf(t), ValueOf(t))]
                 /\ stats' = stats
    /\ hist' = [hist EXCEPT !.raced = @ \/ reg.pc = "write"]
    /\ UNCHANGED <<reg, routerVars, routed, data, objs, pool, cache, statsOn,
                   handled, ctx, batch>>

\* part_001:128-147 and pool.go:29-39.  For a type the pool has, sync.Pool
\* hands out an instance of the reservoir (fresh = FALSE) or the result of
\* New, which is the type's factory (fresh = TRUE); either way ok is true
\* and the reuse counter is incremented.  For a type the pool does not have,
\* Get returns (nil, false) and the instance comes from the registry's
\* factory, or the call returns the registry's error.
ProcGet(t) ==
    /\ th[t].pc = "get"
    /\ LET e == RuleOf(t).Entity
       IN IF e \in DOMAIN pool
          THEN /\ \E o \in pool[e] \cup {0} :
                    IF o = 0
                    THEN /\ objs' = Append(objs, Factory(e))
                         /\ pool' = pool
                         /\ th' = [th EXCEPT ![t].pc = "upsert", ![t].fresh = TRUE,
                                     ![t].obj = Len(objs) + 1]
                    ELSE /\ objs' = objs
                         /\ pool' = [pool EXCEPT ![e] = @ \ {o}]
                         /\ th' = [th EXCEPT ![t].pc = "upsert", ![t].fresh = FALSE,
                                     ![t].obj = o]
               /\ stats' = Bump(stats, "ReuseCount")
          ELSE IF e \notin RegisteredTypes
          THEN /\ th' = [th EXCEPT ![t] = Returned(t, "type not registered")]
               /\ stats' = Bump(stats, "ProcessedLines")
               /\ UNCHANGED <<objs, pool>>
          ELSE /\ objs' = Append(objs, Factory(e))
               /\ th' = [th EXCEPT ![t].pc = "upsert", ![t].fresh = TRUE,
                           ![t].obj = Len(objs) + 1]
               /\ stats' = Bump(stats, "AllocCount")
               /\ pool' = pool
    /\ UNCHANGED <<reg, routerVars, routed, data, cache, statsOn, handled, ctx,
                   batch, hist>>

\* The mutant of ProcUpsert: the candidate is put back whatever the store
\* returned.
ProcUpsertAlwaysPuts(t) ==
    /\ th[t].pc = "upsert"
    /\ LET e == RuleOf(t).Entity
           r == StoreUpsert(data, e, th[t].key, th[t].obj)
       IN /\ data' = r.data
          /\ th' = [th EXCEPT ![t].existing = r.obj, ![t].pc = "put"]
    /\ UNCHANGED <<reg, routerVars, routed, objs, pool, cache, stats, statsOn,
                   handled, ctx, batch, hist>>

\* part_001:149-153: the upsert and the comparison existing != obj
ProcUpsert(t) ==
    /\ th[t].pc = "upsert"
    /\ LET e == RuleOf(t).Entity
           r == StoreUpsert(data, e, th[t].key, th[t].obj)
       IN /\ data' = r.data
          /\ th' = [th EXCEPT ![t].existing = r.obj,
                      ![t].pc = IF r.obj # th[t].obj THEN "put" ELSE "transform"]
    /\ UNCHANGED <<reg, routerVars, routed, objs, pool, cache, stats, statsOn,
                   handled, ctx, batch, hist>>

\* The mutant of ProcPut: the losing candidate is put back, and then
\* written to instead of the stored instance.
ProcPutKeepsCandidate(t) ==
    /\ th[t].pc = "put"
    /\ LET e == RuleOf(t).Entity
           o == th[t].obj
       IN IF e \in DOMAIN pool
          THEN /\ objs' = [objs EXCEPT ![o] = resetObject(@)]
               /\ pool' = [pool EXCEPT ![e] = @ \cup {o}]
          ELSE UNCHANGED <<objs, pool>>
    /\ th' = [th EXCEPT ![t].pc = "transform"]
    /\ UNCHANGED <<reg, routerVars, routed, data, cache, stats, statsOn, handled,
                   ctx, batch, hist>>

\* The mutant of ProcPut: the losing candidate is dropped, not put back.
ProcPutDropped(t) ==
    /\ th[t].pc = "put"
    /\ th' = [th EXCEPT ![t].pc = "transform", ![t].obj = th[t].existing]
    /\ UNCHANGED <<reg, routerVars, routed, data, objs, pool, cache, stats,
                   statsOn, handled, ctx, batch, hist>>

\* part_001:153-156 and pool.go:41-52: the losing candidate is reset and
\* put into the reservoir of its type, and the stored instance is used
ProcPut(t) ==
    /\ th[t].pc = "put"
    /\ LET e == RuleOf(t).Entity
           o == th[t].obj
       IN IF e \in DOMAIN pool
          THEN /\ objs' = [objs EXCEPT ![o] = resetObject(@)]
               /\ pool' = [pool EXCEPT ![e] = @ \cup {o}]
          ELSE UNCHANGED <<objs, pool>>
    /\ th' = [th EXCEPT ![t].pc = "transform", ![t].obj = th[t].existing]
    /\ UNCHANGED <<reg, routerVars, routed, data, cache, stats, statsOn, handled,
                   ctx, batch, hist>>

\* The mutant of ProcTransform: after a transform failure the raw value is
\* written all the same.
ProcTransformGoesOn(t) ==
    /\ th[t].pc = "transform"
    /\ LET rule == RuleOf(t)
           tr == Transform(cache, rule.Transform, ValueOf(t))
       IN IF rule.Transform = EmptyStr
          THEN /\ th' = [th EXCEPT ![t].pc = "set", ![t].final = StrV(ValueOf(t))]
               /\ UNCHANGED <<cache, stats, handled>>
          ELSE IF tr.res.err # ""
          THEN /\ cache' = tr.cache
               /\ stats' = Bump(stats, "FailedRules")
               /\ handled' = Append(handled, "transform failed: " \o tr.res.err)
               /\ th' = [th EXCEPT ![t].pc = "set", ![t].final = StrV(ValueOf(t))]
          ELSE /\ cache' = tr.cache
               /\ th' = [th EXCEPT ![t].pc = "set", ![t].final = tr.res.v]
               /\ UNCHANGED <<stats, handled>>
    /\ UNCHANGED <<reg, routerVars, routed, data, objs, pool, statsOn, ctx, batch, hist>>

\* The mutant of ProcTransform: a call whose transform fails returns without
\* being counted as a processed line.
ProcTransformUncounted(t) ==
    /\ th[t].pc = "transform"
    /\ LET rule == RuleOf(t)
           tr == Transform(cache, rule.Transform, ValueOf(t))
       IN IF rule.Transform = EmptyStr
          THEN /\ th' = [th EXCEPT ![t].pc = "set", ![t].final = StrV(ValueOf(t))]
               /\ UNCHANGED <<cache, stats, handled>>
          ELSE IF tr.res.err # ""
          THEN /\ cache' = tr.cache
               /\ stats' = Bump(stats, "FailedRules")
               /\ handled' = Append(handled, "transform failed: " \o tr.res.err)
               /\ th' = [th EXCEPT ![t] = Returned(t, "")]
          ELSE /\ cache' = tr.cache
               /\ th' = [th EXCEPT ![t].pc = "set", ![t].final = tr.res.v]
               /\ UNCHANGED <<stats, handled>>
    /\ UNCHANGED <<reg, routerVars, routed, data, objs, pool, statsOn, ctx, batch, hist>>

\* part_001:158-169
ProcTransform(t) ==
    /\ th[t].pc = "transform"
    /\ LET rule == RuleOf(t)
           tr == Transform(cache, rule.Transform, ValueOf(t))
       IN IF rule.Transform = EmptyStr
          THEN /\ th' = [th EXCEPT ![t].pc = "set", ![t].final = StrV(ValueOf(t))]
               /\ UNCHANGED <<cache, stats, handled>>
          ELSE IF tr.res.err # ""
          THEN /\ cache' = tr.cache
               /\ stats' = Bump(Bump(stats, "FailedRules"), "ProcessedLines")
               /\ handled' = Append(handled, "transform failed: " \o tr.res.err)
               /\ th' = [th EXCEPT ![t] = Returned(t, "")]
          ELSE /\ cache' = tr.cache
               /\ th' = [th EXCEPT ![t].pc = "set", ![t].final = tr.res.v]
               /\ UNCHANGED <<stats, handled>>
    /\ UNCHANGED <<reg, routerVars, routed, data, objs, pool, statsOn, ctx, batch, hist>>

\* A string header is two words, the data pointer and the length, and an
\* assignment stores them one after the other.  Tear(a, b) is the string a
\* reader finds behind the pointer of a and the length of b: a prefix of a,
\* or a and the bytes that follow it in memory, each written "?".
Tear(a, b) ==
    IF Len(b) <= Len(a) THEN SubSeq(a, 1, Len(b))
    ELSE a \o [i \in 1..(Len(b) - Len(a)) |-> "?"]

\* The goroutines whose setter call on the same field of the same instance
\* is pending while t makes its own: no lock orders the two assignments
\* (part_001:171-173, registry.go:107-123), so they are a data race when the
\* field is a string and the values differ.
SetRacers(t) ==
    {u \in Threads \ {t} :
        /\ th[u].pc = "set" /\ th[u].obj = th[t].obj
        /\ RuleOf(u).Field = RuleOf(t).Field
        /\ HasSetter(RuleOf(t).Entity, RuleOf(t).Field)
        /\ FieldTypes[RuleOf(t).Entity][RuleOf(t).Field] = "string"
        /\ th[u].final # th[t].final}

\* What the racing assignments can leave in the field when v is assigned
\* and the values of `others` were assigned concurrently: v, or the pointer
\* of one with the length of the other
SetOutcomes(v, others) ==
    {v} \cup {StrV(Tear(v.s, w)) : w \in others}
        \cup {StrV(Tear(w, v.s)) : w \in others}

\* part_001:171-181.  racing holds the values assigned to the field while
\* the setter call of the goroutine was pending.
ProcSet(t) ==
    /\ th[t].pc = "set"
    /\ LET rule == RuleOf(t)
           o == th[t].obj
           r == Setter(objs[o], rule.Field, th[t].final)
       IN IF ~HasSetter(rule.Entity, rule.Field)
          THEN /\ UNCHANGED <<objs, handled>>
               /\ stats' = Bump(stats, "ProcessedLines")
               /\ th' = [th EXCEPT ![t] = Returned(t, "")]
          ELSE IF r.err # ""
          THEN /\ objs' = objs
               /\ stats' = Bump(Bump(stats, "FailedRules"), "ProcessedLines")
               /\ handled' = Append(handled, "setter failed: " \o r.err)
               /\ th' = [th EXCEPT ![t] = Returned(t, "")]
          ELSE /\ \E w \in SetOutcomes(r.obj.f[rule.Field], th[t].racing) :
                    objs' = [objs EXCEPT ![o].f[rule.Field] = w]
               /\ handled' = handled
               /\ stats' = Bump(stats, "ProcessedLines")
               /\ th' = [u \in Threads |->
                           IF u = t THEN Returned(t, "")
                           ELSE IF u \in SetRacers(t)
                           THEN [th[u] EXCEPT !.racing = @ \cup {r.obj.f[rule.Field].s}]
                           ELSE th[u]]
    /\ UNCHANGED <<reg, routerVars, routed, data, pool, cache, statsOn, ctx, batch, hist>>

\* ProcessContext from its first statement to its return
ProcessStep(t) ==
    \/ ProcRoute(t)
    \/ ProcRule(t)
    \/ ProcGet(t)
    \/ ProcUpsert(t)
    \/ ProcPut(t)
    \/ ProcTransform(t)
    \/ ProcSet(t)

-----------------------------------------------------------------------------
(* Single-item ingestion: goroutines call ProcessContext(ctx, path, value) *)
(* with an item of Items, again and again.                                 *)

\* The items offered to the concurrent callers: a write to host:1 whose
\* transform fails, an unmatched path and a write to host:2
ProcItems == {3, 7, 9}

\* The call of ProcessContext (part_001:98-103) by a goroutine that is not
\* inside a call (its last result stays readable until then); ctxErr
\* records whether the signal was already set.
CallProcess(t, items) ==
    /\ th[t].pc \in {"idle", "ret"}
    /\ hist.calls < MaxCalls
    /\ \E i \in items :
         th' = [th EXCEPT ![t] = [IdleThread EXCEPT
                  !.pc = "route", !.caller = "single", !.ctxErr = ctx,
                  !.item = i]]
    /\ hist' = [hist EXCEPT !.calls = @ + 1]
    /\ UNCHANGED <<reg, routerVars, routed, mapperVars, statsOn, ctx, batch>>

\* context cancellation: cancel() or the deadline
Cancel ==
    /\ ~ctx
    /\ ctx' = TRUE
    /\ UNCHANGED <<reg, routerVars, routed, mapperVars, statsOn, th, batch, hist>>

\* Goroutines calling Process concurrently
NextProc ==
    \/ \E t \in Threads : CallProcess(t, ProcItems)
    \/ \E t \in Threads : ProcessStep(t)

SpecProc == InitMapper /\ [][NextProc]_vars

\* One goroutine calling ProcessContext, item after item, with a signal that
\* may be cancelled at any time
NextSeq ==
    \/ CallProcess(1, DOMAIN Items)
    \/ ProcessStep(1)
    \/ Cancel

SpecSeq == InitMapper /\ [][NextSeq]_vars

-----------------------------------------------------------------------------
(* Properties of single-item ingestion *)

\* The goroutines that hold a candidate instance: taken from the pool or
\* made by the factory, and not yet installed or put back
Holders == {t \in Threads : th[t].pc \in {"upsert", "put"}}
Held == {th[t].obj : t \in Holders}
Pooled == UNION {pool[e] : e \in DOMAIN pool}

\* C2: without Clear, every instance ever created is in exactly one place:
\* held as the candidate of a Process call in progress, in the pool, or
\* installed in the store; the three counts add up to the number created.
C2_NoLeak ==
    /\ Held \cup Pooled \cup StoreInstances(data) = 1..Len(objs)
    /\ Cardinality(Holders) + Cardinality(Pooled)
         + Cardinality(StoreInstances(data)) = Len(objs)

\* Three calls have taken an instance from the pool, two instances were
\* ever made, and both are installed: the one that lost an upsert and was
\* pooled has been taken out again and installed under another key.
C2_Witness ==
    /\ stats.ReuseCount = 3
    /\ Len(objs) = 2
    /\ Cardinality(StoreInstances(data)) = 2
    /\ Pooled = {} /\ Holders = {}

\* The step by which the call of goroutine t returns
Returns(t) == th[t].pc \notin {"idle", "ret"} /\ th'[t].pc = "ret"

TransformFails(rule, value) ==
    rule.Transform # EmptyStr /\ Apply(rule.Transform, value).err # ""

\* C7: when the transform of the rule fails on the value, the transform step
\* calls the error handler once, with that error wrapped, increments the
\* failed counter by one,
\* writes no instance, and the call returns success; the call never reaches
\* the setter.
C7_TransformFailure ==
    [][\A t \in Threads :
         /\ (th[t].pc = "transform" /\ th'[t] # th[t]
               /\ TransformFails(RuleOf(t), ValueOf(t)))
            => /\ Len(handled') = Len(handled) + 1
               /\ SubSeq(handled', 1, Len(handled)) = handled
               /\ handled'[Len(handled')] =
                    "transform failed: "
                      \o Apply(RuleOf(t).Transform, ValueOf(t)).err
               /\ stats'.FailedRules = stats.FailedRules + 1
               /\ objs' = objs /\ data' = data
               /\ th'[t].pc = "ret" /\ th'[t].ret = ""
         /\ (th[t].pc # "set" /\ th'[t].pc = "set")
            => ~TransformFails(rules[th'[t].rule], Items[th'[t].item].value)]_vars

\* The call with the value "maybe" for the bool transform has returned, and
\* the handler was called.
C7_Witness ==
    \E t \in Threads :
      /\ th[t].pc = "ret" /\ th[t].item = 3 /\ th[t].ret = ""
      /\ stats.FailedRules >= 1
      /\ Len(handled) >= 1

\* The rule Process resolves for a path: the pattern Route returns and the
\* rule table's entry for its ID
Resolves(path) ==
    LET r == Route(router, pats, path)
    IN r.ok /\ pats[r.pat].ID \in DOMAIN rules
RuleFor(path) == rules[pats[Route(router, pats, path).pat].ID]

\* T(value): the value itself when the rule names no transform
Transformed(rule, value) ==
    IF rule.Transform = EmptyStr THEN Ok(StrV(value))
    ELSE Apply(rule.Transform, value)

\* The call of t returns no error and the store holds at (E, X(path, value))
\* an entity whose field F is T(value), as the field's setter assigns it.
WroteField(t, R) ==
    LET key == Extract(R.Extractor, PathOf(t), ValueOf(t))
        tv == Transformed(R, ValueOf(t))
    IN /\ th'[t].ret = ""
       /\ R.Entity \in RegisteredTypes
       /\ HasSetter(R.Entity, R.Field)
       /\ StoreHas(data', R.Entity, key)
       /\ LET sv == setFieldValue(FieldTypes[R.Entity][R.Field], tv.v)
          IN /\ sv.err = ""
             /\ objs'[data'[R.Entity][key]].f[R.Field] = sv.v

HostKey1 == <<"h","o","s","t",":","1">>
MacColons == <<"1","1",":","2","2",":","3","3",":","4","4",":","5","5",":","6","6">>

C10_AsStated ==
    [][\A t \in Threads :
         (th[t].ctxErr /\ th[t].pc \notin {"idle", "ret"} /\ th'[t] # th[t])
         => /\ data' = data /\ objs' = objs /\ pool' = pool /\ stats' = stats
            /\ th'[t].pc = "ret" => th'[t].ret = ErrCanceled]_vars

-----------------------------------------------------------------------------
(* The router on its own: patterns are compiled and registered, then a     *)
(* path is routed (FastRouter.AddPattern and FastRouter.Route).            *)

\* The patterns registered in one run
MaxPatterns == 2
\* The dot-delimited segments of a routed path
MaxSegs == 4

\* The pattern texts: A.*.C, A.X.C, *, A.* and A*
PatternTexts ==
    { <<"A",".","*",".","C">>, <<"A",".","X",".","C">>, <<"*">>,
      <<"A",".","*">>, <<"A","*">> }

\* The segments routed paths are made of; the empty one gives paths with a
\* leading, doubled or trailing dot
Segs == { EmptyStr, <<"A">>, <<"X">>, <<"C">> }

\* The paths routed: every pattern text, and every path of up to MaxSegs
\* segments
RouterPaths ==
    PatternTexts \cup
    UNION { { Join(f) : f \in [1..n -> Segs] } : n \in 1..MaxSegs }

\* NewFastRouter (router.go:32-39); the mapper around it is not used
InitRouter ==
    /\ pats = <<>>
    /\ router = NewRouter
    /\ rules = NewRules
    /\ routed = NoRouted
    /\ data = NewMapStore
    /\ objs = <<>>
    /\ pool = NewPool
    /\ cache = <<>>
    /\ stats = NewStats
    /\ statsOn = TRUE
    /\ handled = <<>>
    /\ ctx = FALSE
    /\ th = [t \in Threads |-> IdleThread]
    /\ batch = NoBatch
    /\ reg = NewReg
    /\ hist = NewHist

\* router.AddPattern(router.CompilePattern(text))
RegisterPattern(text) ==
    /\ ~routed.done
    /\ Len(pats) < MaxPatterns
    /\ pats' = Append(pats, CompilePattern(text))
    /\ router' = AddPattern(router, pats', Len(pats'))
    /\ UNCHANGED <<reg, rules, routed, mapperVars, statsOn, ctx, th, batch,
                   hist>>

\* router.Route(path), once the patterns are registered
RouteCall(path) ==
    /\ ~routed.done
    /\ routed' = [done |-> TRUE, path |-> path, res |-> Route(router, pats, path)]
    /\ UNCHANGED <<reg, routerVars, mapperVars, statsOn, ctx, th, batch, hist>>

NextRouter ==
    \/ \E text \in PatternTexts : RegisterPattern(text)
    \/ \E path \in RouterPaths : RouteCall(path)

SpecRouter == InitRouter /\ [][NextRouter]_vars

-----------------------------------------------------------------------------
(* Properties of the router *)

\* Whether a dot-delimited segment of the text is the wildcard
HasWildcardSegment(text) ==
    \E i \in 1..Len(Split(text)) : Split(text)[i] = <<"*">>

\* C5 as stated: when a registered pattern's text has no wildcard segment
\* and the path routed is that text, Route returns a pattern of that text
\* through the exact-match tier, whatever else is registered.
C5_AsStated ==
    (/\ routed.done
     /\ ~HasWildcardSegment(routed.path)
     /\ \E ref \in 1..Len(pats) : pats[ref].OriginalPath = routed.path)
    => /\ routed.res.ok
       /\ routed.res.tier = "exact"
       /\ pats[routed.res.pat].OriginalPath = routed.path

PatternABC == <<"A",".","*",".","C">>

\* C6: with only the compiled pattern A.*.C registered, Route reports a
\* match for a path if and only if the path has exactly three dot-delimited
\* segments, the first A and the third C.
C6_ThreeSegments ==
    (routed.done /\ Len(pats) = 1 /\ pats[1].OriginalPath = PatternABC)
    => (routed.res.ok <=>
          LET segs == Split(routed.path)
          IN Len(segs) = 3 /\ segs[1] = <<"A">> /\ segs[3] = <<"C">>)

\* With only A.*.C registered, the path A.X.C was routed and matched.
C6_Witness ==
    /\ routed.done /\ Len(pats) = 1 /\ pats[1].OriginalPath = PatternABC
    /\ routed.path = <<"A",".","X",".","C">>
    /\ routed.res.ok /\ routed.res.pat = 1

-----------------------------------------------------------------------------
(* The store on its own: goroutines call Upsert, Get, GetAll and Clear of  *)
(* one MapStore.  A caller waits at s.mu (pc "store") and the body runs in *)
(* one step while it holds the lock.  The factory makes a new instance.    *)

StoreTypes == {"host"}
StoreKeys == { <<"h","o","s","t",":","1">>, <<"h","o","s","t",":","2">> }
StoreOps == {"upsert", "get", "getall", "clear"}

InitStore == InitRouter

\* A goroutine calls a method of the store
StoreCall(t, op, target, key) ==
    /\ th[t].pc \in {"idle", "ret"}
    /\ hist.calls < MaxCalls
    /\ th' = [th EXCEPT ![t] = [IdleThread EXCEPT
                 !.pc = "store", !.caller = op, !.rule = target, !.key = key]]
    /\ hist' = [hist EXCEPT !.calls = @ + 1]
    /\ UNCHANGED <<reg, routerVars, routed, mapperVars, statsOn, ctx, batch>>

\* The body of the method under s.mu, and its return.  hist.first keeps,
\* for each (type, key), the instance the first Upsert since the last Clear
\* returned.
StoreRun(t) ==
    /\ th[t].pc = "store"
    /\ LET op == th[t].caller
           target == th[t].rule
           key == th[t].key
           r == StoreUpsert(data, target, key, Len(objs) + 1)
       IN IF op = "upsert"
          THEN /\ data' = r.data
               /\ objs' = IF r.obj = Len(objs) + 1
                          THEN Append(objs, Factory(target)) ELSE objs
               /\ th' = [th EXCEPT ![t].pc = "ret", ![t].obj = r.obj]
               /\ hist' = IF <<target, key>> \in DOMAIN hist.first THEN hist
                          ELSE [hist EXCEPT !.first = (<<target, key>> :> r.obj) @@ @]
          ELSE IF op = "get"
          THEN /\ th' = [th EXCEPT ![t].pc = "ret",
                                   ![t].obj = StoreGet(data, target, key)]
               /\ UNCHANGED <<data, objs, hist>>
          ELSE IF op = "getall"
          THEN /\ th' = [th EXCEPT ![t].pc = "ret",
                                   ![t].final = StoreGetAll(data, target)]
               /\ UNCHANGED <<data, objs, hist>>
          ELSE /\ data' = StoreClear(data)
               /\ th' = [th EXCEPT ![t].pc = "ret"]
               /\ hist' = [hist EXCEPT !.first = <<>>, !.clears = @ + 1]
               /\ objs' = objs
    /\ UNCHANGED <<reg, routerVars, routed, pool, cache, stats, statsOn, handled,
                   ctx, batch>>

NextStore ==
    \/ \E t \in Threads, op \in StoreOps, target \in StoreTypes, key \in StoreKeys :
         StoreCall(t, op, target, key)
    \/ \E t \in Threads : StoreRun(t)

SpecStore == InitStore /\ [][NextStore]_vars

-----------------------------------------------------------------------------
(* Properties of the store *)

\* C1: of the callers of Upsert for one (type, key) since the last Clear,
\* exactly one has its factory called and its result installed (the first
\* to run); every Upsert returns that instance, and every Get and GetAll
\* that runs after it and before the next Clear shows that instance at
\* (type, key) and no other.
C1_OneInstance ==
    [][\A t \in Threads :
         (th[t].pc = "store" /\ th'[t].pc = "ret")
         => LET op == th[t].caller
                target == th[t].rule
                key == th[t].key
                seen == <<target, key>> \in DOMAIN hist.first
            IN /\ op = "upsert" =>
                    IF seen
                    THEN th'[t].obj = hist.first[<<target, key>>] /\ objs' = objs
                    ELSE Len(objs') = Len(objs) + 1 /\ th'[t].obj = Len(objs')
               /\ (op = "get" /\ seen) => th'[t].obj = hist.first[<<target, key>>]
               /\ op = "getall" =>
                    \A k \in StoreKeys :
                      <<target, k>> \in DOMAIN hist.first
                      => /\ k \in DOMAIN th'[t].final
                         /\ th'[t].final[k] = hist.first[<<target, k>>]]_vars

\* Two goroutines have both returned from Upsert for host:1 with the one
\* instance ever made, and no Clear has run.
C1_Witness ==
    /\ th[1].pc = "ret" /\ th[1].caller = "upsert"
    /\ th[2].pc = "ret" /\ th[2].caller = "upsert"
    /\ th[1].key = th[2].key
    /\ th[1].obj = th[2].obj /\ th[1].obj # 0
    /\ Len(objs) = 1 /\ hist.clears = 0

-----------------------------------------------------------------------------
(* Batch ingestion: FastMapper.ProcessBatchContext, part_001:188-248.  The *)
(* caller's goroutine is the record batch; on the sequential path it runs  *)
(* ProcessContext as goroutine 1, on the parallel path the workers are the *)
(* goroutines 1..numWorkers.                                               *)

\* const batchSize (part_001:189), 100 in the program
batchSize == 2
\* The cap on the workers, part_001:205-207
MaxWorkers == 10

\* The longest batch: the shortest one that takes the parallel path
MaxBatch == 2 * batchSize

\* The items batches are cut from: a batch is n successive items of this
\* cycle from an offset on
BatchBase == <<1, 2, 5, 4, 7, 3, 9, 8, 6>>

\* The item of Items at position i of the batch
BatchItem(i) == BatchBase[((batch.off + i - 1) % Len(BatchBase)) + 1]

\* The process counters of ProcessContext
ProcPcs == {"route", "rule", "get", "upsert", "put", "transform", "set"}

\* The mutant of TrySend: the channel keeps the latest error offered.
TrySendLatest(ch, err) == <<err>>

\* The non-blocking send of part_001:223-226 and 230-233 on a channel of
\* capacity 1
TrySend(ch, err) == IF ch = <<>> THEN <<err>> ELSE ch

\* part_001:188-215: the call, up to the sequential loop or to the start of
\* the workers (itemsChan filled and closed, wg.Add, the go statements)
CallBatch(n, off) ==
    /\ batch.pc = "none"
    /\ LET numWorkers == IF (n + batchSize - 1) \div batchSize > MaxWorkers
                         THEN MaxWorkers
                         ELSE (n + batchSize - 1) \div batchSize
       IN IF n < batchSize * 2
          THEN /\ batch' = [NoBatch EXCEPT !.pc = "seq", !.n = n, !.off = off,
                                           !.i = 1]
               /\ th' = th
          ELSE /\ numWorkers <= NThreads
               /\ batch' = [NoBatch EXCEPT !.pc = "par", !.n = n, !.off = off,
                                           !.queue = 1, !.wg = numWorkers,
                                           !.numWorkers = numWorkers]
               /\ th' = [t \in Threads |->
                           IF t <= numWorkers
                           THEN [IdleThread EXCEPT !.pc = "w_recv", !.caller = "worker"]
                           ELSE th[t]]
    /\ UNCHANGED <<reg, routerVars, routed, mapperVars, statsOn, ctx, hist>>

\* The mutant of SeqNext: the loop goes on to the next item after an error
\* of ProcessContext.
SeqNextGoesOn ==
    /\ batch.pc = "seq"
    /\ th[1].pc \in {"idle", "ret"}
    /\ IF batch.i > batch.n
       THEN /\ batch' = [batch EXCEPT !.pc = "done", !.ret = th[1].ret]
            /\ UNCHANGED <<th, hist>>
       ELSE IF ctx
       THEN /\ batch' = [batch EXCEPT !.pc = "done", !.ret = ErrCanceled]
            /\ hist' = [hist EXCEPT !.skipped = @ \cup {batch.i}]
            /\ th' = th
       ELSE /\ th' = [th EXCEPT ![1] = [IdleThread EXCEPT
                        !.pc = "route", !.caller = "batch",
                        !.item = BatchItem(batch.i), !.pos = batch.i]]
            /\ batch' = [batch EXCEPT !.i = @ + 1]
            /\ hist' = [hist EXCEPT !.started = @ \cup {batch.i}]
    /\ UNCHANGED <<reg, routerVars, routed, mapperVars, statsOn, ctx>>

\* The sequential loop, part_001:191-201: the result of the item before,
\* the end of the range, the check of ctx.Err(), and the call of
\* ProcessContext for item i
SeqNext ==
    /\ batch.pc = "seq"
    /\ th[1].pc \in {"idle", "ret"}
    /\ IF th[1].pc = "ret" /\ th[1].ret # ""
       THEN /\ batch' = [batch EXCEPT !.pc = "done", !.ret = th[1].ret]
            /\ UNCHANGED <<th, hist>>
       ELSE IF batch.i > batch.n
       THEN /\ batch' = [batch EXCEPT !.pc = "done", !.ret = ""]
            /\ UNCHANGED <<th, hist>>
       ELSE IF ctx
       THEN /\ batch' = [batch EXCEPT !.pc = "done", !.ret = ErrCanceled]
            /\ hist' = [hist EXCEPT !.skipped = @ \cup {batch.i}]
            /\ th' = th
       ELSE /\ th' = [th EXCEPT ![1] = [IdleThread EXCEPT
                        !.pc = "route", !.caller = "batch",
                        !.item = BatchItem(batch.i), !.pos = batch.i]]
            /\ batch' = [batch EXCEPT !.i = @ + 1]
            /\ hist' = [hist EXCEPT !.started = @ \cup {batch.i}]
    /\ UNCHANGED <<reg, routerVars, routed, mapperVars, statsOn, ctx>>

\* The mutant of WorkerNext: the error is sent with a plain send, which
\* waits until the channel has room.
WorkerNextBlockingSend(t) ==
    /\ batch.pc = "par"
    /\ th[t].caller = "worker"
    /\ th[t].pc \in {"w_recv", "ret"}
    /\ IF th[t].pc = "ret" /\ th[t].ret # ""
       THEN /\ batch.errChan = <<>>
            /\ batch' = [batch EXCEPT !.errChan = <<th[t].ret>>, !.wg = @ - 1]
            /\ th' = [th EXCEPT ![t].pc = "w_done"]
            /\ hist' = [hist EXCEPT !.errs = Append(@, th[t].ret)]
       ELSE IF batch.queue > batch.n
       THEN /\ batch' = [batch EXCEPT !.wg = @ - 1]
            /\ th' = [th EXCEPT ![t] = [IdleThread EXCEPT
                         !.pc = "w_done", !.caller = "worker"]]
            /\ hist' = hist
       ELSE /\ batch' = [batch EXCEPT !.queue = @ + 1]
            /\ th' = [th EXCEPT ![t] = [IdleThread EXCEPT
                         !.pc = "w_check", !.caller = "worker",
                         !.item = BatchItem(batch.queue), !.pos = batch.queue]]
            /\ hist' = hist
    /\ UNCHANGED <<reg, routerVars, routed, mapperVars, statsOn, ctx>>

\* A worker at the head of its loop, part_001:221 and 229-235: after an
\* error of ProcessContext it offers the error and returns; otherwise it
\* receives the next item, or returns when the closed channel is drained.
\* The deferred wg.Done() is taken with the return.
WorkerNext(t) ==
    /\ batch.pc = "par"
    /\ th[t].caller = "worker"
    /\ th[t].pc \in {"w_recv", "ret"}
    /\ IF th[t].pc = "ret" /\ th[t].ret # ""
       THEN /\ batch' = [batch EXCEPT !.errChan = TrySend(@, th[t].ret),
                                      !.wg = @ - 1]
            /\ th' = [th EXCEPT ![t].pc = "w_done"]
            /\ hist' = [hist EXCEPT !.errs = Append(@, th[t].ret)]
       ELSE IF batch.queue > batch.n
       THEN /\ batch' = [batch EXCEPT !.wg = @ - 1]
            /\ th' = [th EXCEPT ![t] = [IdleThread EXCEPT
                         !.pc = "w_done", !.caller = "worker"]]
            /\ hist' = hist
       ELSE /\ batch' = [batch EXCEPT !.queue = @ + 1]
            /\ th' = [th EXCEPT ![t] = [IdleThread EXCEPT
                         !.pc = "w_check", !.caller = "worker",
                         !.item = BatchItem(batch.queue), !.pos = batch.queue]]
            /\ hist' = hist
    /\ UNCHANGED <<reg, routerVars, routed, mapperVars, statsOn, ctx>>

\* The mutant of WorkerCheck: a worker that finds the signal set returns
\* without offering the error.
WorkerCheckSilent(t) ==
    /\ batch.pc = "par"
    /\ th[t].pc = "w_check"
    /\ IF ctx
       THEN /\ batch' = [batch EXCEPT !.wg = @ - 1]
            /\ th' = [th EXCEPT ![t].pc = "w_done", ![t].ret = ErrCanceled]
            /\ hist' = [hist EXCEPT !.skipped = @ \cup {th[t].pos}]
       ELSE /\ th' = [th EXCEPT ![t].pc = "route"]
            /\ hist' = [hist EXCEPT !.started = @ \cup {th[t].pos}]
            /\ batch' = batch
    /\ UNCHANGED <<reg, routerVars, routed, mapperVars, statsOn, ctx>>

\* part_001:222-229: the check of ctx.Err() for the item received, then the
\* call of ProcessContext
WorkerCheck(t) ==
    /\ batch.pc = "par"
    /\ th[t].pc = "w_check"
    /\ IF ctx
       THEN /\ batch' = [batch EXCEPT !.errChan = TrySend(@, ErrCanceled),
                                      !.wg = @ - 1]
            /\ th' = [th EXCEPT ![t].pc = "w_done", ![t].ret = ErrCanceled]
            /\ hist' = [hist EXCEPT !.skipped = @ \cup {th[t].pos},
                                    !.errs = Append(@, ErrCanceled)]
       ELSE /\ th' = [th EXCEPT ![t].pc = "route"]
            /\ hist' = [hist EXCEPT !.started = @ \cup {th[t].pos}]
            /\ batch' = batch
    /\ UNCHANGED <<reg, routerVars, routed, mapperVars, statsOn, ctx>>

\* The mutant of BatchWait: the call returns once the queue is drained,
\* without waiting for the workers.
BatchWaitNoWait ==
    /\ batch.pc = "par"
    /\ batch.queue > batch.n
    /\ batch' = [batch EXCEPT !.pc = "done",
                    !.ret = IF batch.errChan # <<>> THEN batch.errChan[1] ELSE ""]
    /\ UNCHANGED <<reg, routerVars, routed, mapperVars, statsOn, ctx, th, hist>>

\* part_001:240-247: wg.Wait() and the receive from errChan
BatchWait ==
    /\ batch.pc = "par"
    /\ batch.wg = 0
    /\ batch' = [batch EXCEPT !.pc = "done",
                    !.ret = IF batch.errChan # <<>> THEN batch.errChan[1] ELSE ""]
    /\ UNCHANGED <<reg, routerVars, routed, mapperVars, statsOn, ctx, th, hist>>

NextBatch ==
    \/ \E n \in 0..MaxBatch, off \in 0..(Len(BatchBase) - 1) : CallBatch(n, off)
    \/ SeqNext
    \/ \E t \in Threads : WorkerNext(t)
    \/ \E t \in Threads : WorkerCheck(t)
    \/ \E t \in Threads : ProcessStep(t)
    \/ BatchWait
    \/ Cancel

SpecBatch == InitMapper /\ [][NextBatch]_vars

\* A step of the batch call outside ProcessContext: the caller's loop and
\* its wait, a worker's loop
LoopStep ==
    \/ SeqNext
    \/ \E t \in Threads : WorkerNext(t)
    \/ \E t \in Threads : WorkerCheck(t)
    \/ BatchWait

\* Fair scheduling: while the caller or a worker can take a step of its
\* loop, one of them does (any scheduler that runs each runnable goroutine
\* in the end does that much).  The cancellation of the context is owed to
\* nobody.
FairBatch == WF_vars(LoopStep)

\* Some goroutine is inside ProcessContext: a step of ProcessStep is enabled
InProcess == \E t \in Threads : th[t].pc \in ProcPcs

\* Each ProcessContext call returns: weak fairness of its steps, with
\* ENABLED <<\E t : ProcessStep(t)>>_vars written out as InProcess
ProcessReturns ==
    \/ []<>(~InProcess)
    \/ []<><<\E t \in Threads : ProcessStep(t)>>_vars

SpecBatchFair == SpecBatch /\ FairBatch /\ ProcessReturns

-----------------------------------------------------------------------------
(* Properties of batch ingestion *)

\* What ProcessContext does with an item of Items on the rule set: its
\* setter rejects the transformed value, or it writes the field
SetterFailsItem(i) ==
    /\ Resolves(Items[i].path)
    /\ LET R == RuleFor(Items[i].path)
           tv == Transformed(R, Items[i].value)
       IN /\ R.Entity \in RegisteredTypes /\ HasSetter(R.Entity, R.Field)
          /\ tv.err = ""
          /\ setFieldValue(FieldTypes[R.Entity][R.Field], tv.v).err # ""
WritesItem(i) ==
    /\ Resolves(Items[i].path)
    /\ LET R == RuleFor(Items[i].path)
           tv == Transformed(R, Items[i].value)
       IN /\ R.Entity \in RegisteredTypes /\ HasSetter(R.Entity, R.Field)
          /\ tv.err = ""
          /\ setFieldValue(FieldTypes[R.Entity][R.Field], tv.v).err = ""

\* The field write of item i is in the store
FieldIs(i) ==
    LET R == RuleFor(Items[i].path)
        key == Extract(R.Extractor, Items[i].path, Items[i].value)
        sv == setFieldValue(FieldTypes[R.Entity][R.Field],
                            Transformed(R, Items[i].value).v)
    IN /\ StoreHas(data, R.Entity, key)
       /\ objs[data[R.Entity][key]].f[R.Field] = sv.v

\* A batch on the parallel path, never cancelled, has returned; one of its
\* items triggers a setter failure and every other item writes its field.
OneSetterFailure ==
    /\ batch.pc = "done" /\ batch.numWorkers > 0 /\ ~ctx
    /\ \E p \in 1..batch.n :
         /\ SetterFailsItem(BatchItem(p))
         /\ \A q \in (1..batch.n) \ {p} : WritesItem(BatchItem(q))

\* C8: when a batch on the parallel path in which exactly one item triggers
\* a setter failure has returned, the error handler was called exactly
\* once, the failed counter is 1, and the store shows the field write of
\* every other item.
C8_OneFailure ==
    OneSetterFailure
    => /\ Len(handled) = 1
       /\ stats.FailedRules = 1
       /\ \A q \in 1..batch.n :
            WritesItem(BatchItem(q)) => FieldIs(BatchItem(q))

\* Such a batch has returned: its workers processed the four items, the
\* handler was called once, and the three other fields are written.
C8_Witness ==
    /\ OneSetterFailure
    /\ batch.numWorkers = 2
    /\ Len(handled) = 1
    /\ stats.ProcessedLines = batch.n
    /\ \A q \in 1..batch.n : WritesItem(BatchItem(q)) => FieldIs(BatchItem(q))

\* C9: in a batch call, on either path, (1) an item is started only by a
\* step whose cancellation check finds the signal unset; (2) a started item
\* is only ever advanced by its own ProcessContext, up to its return, and
\* the batch call does not return while an item is in progress; (3) when the
\* call has returned and a check skipped an item, the result is an error:
\* the cancellation error unless a ProcessContext call returned an error.
C9_Cancellation ==
    [][/\ \A t \in Threads :
            /\ (th[t].pc \notin ProcPcs /\ th'[t].pc \in ProcPcs)
               => ~ctx /\ th'[t].pc = "route" /\ th'[t].pos \in hist'.started
            /\ (th[t].pc \in ProcPcs /\ th'[t] # th[t])
               => /\ th'[t].pc \in ProcPcs \cup {"ret"}
                  /\ th'[t].pos = th[t].pos
                  /\ batch'.pc # "done"
       /\ batch'.pc = "done" => \A t \in Threads : th'[t].pc \notin ProcPcs
       /\ (batch'.pc = "done" /\ hist'.skipped # {})
          => /\ batch'.ret # ""
             /\ batch'.ret # ErrCanceled
                => \E t \in Threads : th'[t].ret = batch'.ret
                                       /\ th'[t].pc \in {"ret", "w_done"}
       /\ hist'.skipped \cap hist'.started = {}]_vars

\* A batch on the parallel path was cancelled under way: items were
\* started, a worker's check skipped one, every worker has returned, and
\* the call returned the cancellation error.
C9_Witness ==
    /\ batch.pc = "done" /\ batch.numWorkers = 2
    /\ hist.started # {} /\ hist.skipped # {}
    /\ batch.ret = ErrCanceled

\* Every goroutine the batch call started has left its loop
WorkersDone ==
    \A t \in Threads : th[t].caller = "worker" => th[t].pc = "w_done"

\* C12: under fair scheduling every batch call that was made returns, and
\* by then every worker it started has left its loop: no worker waits for
\* ever on the work queue or on the error channel.
C12_Terminates ==
    (batch.pc # "none") ~> (batch.pc = "done" /\ WorkersDone)

\* A batch on the parallel path has returned after both workers met an
\* error: the second one found the error channel full and left all the
\* same.
C12_Witness ==
    /\ batch.pc = "done" /\ batch.numWorkers = 2
    /\ WorkersDone
    /\ \A t \in 1..batch.numWorkers : th[t].ret # ""
    /\ Len(batch.errChan) = 1

\* C13: on the parallel path, (1) a worker leaves its loop only with an
\* error of its own or with the queue drained, so that the error of one
\* worker stops no other; (2) when the call has returned every worker has
\* left, the result is an error exactly when some worker met one, and it is
\* the first error a worker offered to the error channel.
C13_FirstError ==
    /\ batch.numWorkers > 0
       => \A t \in 1..batch.numWorkers :
            th[t].pc = "w_done" => th[t].ret # "" \/ batch.queue > batch.n
    /\ (batch.pc = "done" /\ batch.numWorkers > 0)
       => /\ WorkersDone
          /\ batch.ret # "" <=> \E t \in 1..batch.numWorkers : th[t].ret # ""
          /\ batch.ret = IF hist.errs = <<>> THEN "" ELSE hist.errs[1]

\* A batch on the parallel path has returned the first of two different
\* errors: one worker's ProcessContext call failed, and the other worker,
\* still at work, found the context cancelled afterwards.
C13_Witness ==
    /\ batch.pc = "done" /\ batch.numWorkers = 2
    /\ Len(hist.errs) = 2 /\ hist.errs[1] # hist.errs[2]
    /\ batch.ret = hist.errs[1] /\ batch.ret # ErrCanceled

\* The batch call is, or was, on the sequential path
Sequential == batch.pc \in {"seq", "done"} /\ batch.numWorkers = 0

\* The ProcessContext call of the sequential loop returned an error
SeqFailed == th[1].pc = "ret" /\ th[1].caller = "batch" /\ th[1].ret # ""

\* C14: on the sequential path, (1) the items started are the first ones of
\* the batch, in input order, and only the caller's goroutine processes,
\* one item at a time; (2) when the call has returned after item i returned
\* an error, the result is that error, no item after i was started, and
\* the field of every item before i that writes one is in the store;
\* (3) when it has returned without an error of an item and without
\* cancellation, every item was started and the result is no error.
C14_Sequential ==
    Sequential
    => /\ hist.started = 1..(batch.i - 1)
       /\ \A t \in Threads :
            th[t].pc \in ProcPcs => t = 1 /\ th[t].pos = batch.i - 1
       /\ (batch.pc = "done" /\ SeqFailed)
          => /\ batch.ret = th[1].ret
             /\ hist.started = 1..th[1].pos
             /\ \A q \in 1..(th[1].pos - 1) :
                  WritesItem(BatchItem(q)) => FieldIs(BatchItem(q))
       /\ (batch.pc = "done" /\ ~SeqFailed /\ ~ctx)
          => batch.ret = "" /\ hist.started = 1..batch.n

\* A sequential batch has returned the error of its second item: the first
\* item's field is written, and the third item was never started.
C14_Witness ==
    /\ Sequential /\ batch.pc = "done" /\ SeqFailed
    /\ batch.n = 3 /\ th[1].pos = 2
    /\ batch.ret = th[1].ret
    /\ hist.started = {1, 2}
    /\ WritesItem(BatchItem(1)) /\ FieldIs(BatchItem(1))
    /\ WritesItem(BatchItem(3))

-----------------------------------------------------------------------------
(* Administration while a goroutine ingests: FastMapper.AddRule            *)
(* (part_001:89-96), FastMapper.Reset (part_001:258-273) and, on the rule  *)
(* list of the CEL mapper, Mapper.LoadRules (part_000:369-381).  AddRule   *)
(* and Reset hold m.mu, which ProcessContext never takes; the router and   *)
(* the store have locks of their own, the counters are atomics.            *)

\* The Reset calls and the LoadRules calls of one run
MaxResets == 1
MaxLoads == 2

\* The items the ingesting goroutine is given: a host write, an unmatched
\* path, and a path of the rule whose entity type is not registered
AdminItems == {1, 7, 8}

\* The items given to the goroutine that ingests while Reset runs: a host
\* write and an unmatched path
ResetItems == {1, 7}

\* The counters in the order Reset stores zero to them, part_001:264-270
StatOrder ==
    <<"ProcessedLines", "MatchedRules", "FailedRules", "CacheHits",
      "CacheMisses", "AllocCount", "ReuseCount">>

\* A compiled rule of the CEL mapper, as far as LoadRules reads it
\* (part_000:39-46): the name and the target of an entry of RuleSetup
CompiledRule(i) == [Name |-> RuleSetup[i].ID, Target |-> RuleSetup[i].Entity]

\* The rule sets offered to Mapper.LoadRules
RuleSets ==
    { <<CompiledRule(1)>>,
      <<CompiledRule(1), CompiledRule(3)>>,
      <<CompiledRule(3), CompiledRule(5)>>,
      <<CompiledRule(5), CompiledRule(2)>> }

\* NewFast(reg, WithFastStats()) (part_001:66-87) and New(reg)
\* (part_000:354-367): no rule is added or loaded yet
InitAdmin ==
    /\ pats = NewRegistration.pats
    /\ router = NewRegistration.router
    /\ rules = NewRegistration.rules
    /\ routed = NoRouted
    /\ data = NewMapStore
    /\ objs = <<>>
    /\ pool = NewPool
    /\ cache = <<>>
    /\ stats = NewStats
    /\ statsOn = TRUE
    /\ handled = <<>>
    /\ ctx = FALSE
    /\ th = [t \in Threads |-> IdleThread]
    /\ batch = NoBatch
    /\ reg = NewReg
    /\ hist = NewHist

\* main.go:135-155 and part_001:89-94: the next rule of RuleSetup is
\* compiled, and AddRule, under m.mu, sets the pattern's ID and gives the
\* pattern to the router
AddRulePattern ==
    /\ reg.pc = "idle"
    /\ reg.next <= Len(RuleSetup)
    /\ LET m == LoadRule([pats |-> pats, router |-> router, rules |-> rules],
                         RuleSetup[reg.next])
       IN /\ pats' = m.pats
          /\ router' = m.router
    /\ reg' = [reg EXCEPT !.pc = "table", !.rule = reg.next]
    /\ UNCHANGED <<rules, routed, mapperVars, statsOn, ctx, th, batch, hist>>

\* part_001:95: the assignment m.rules[rule.ID] = rule begins
AddRuleWrite ==
    /\ reg.pc = "table"
    /\ reg' = [reg EXCEPT !.pc = "write"]
    /\ UNCHANGED <<routerVars, routed, mapperVars, statsOn, ctx, th, batch,
                   hist>>

\* part_001:95-96: the assignment is done, and AddRule returns
AddRuleTable ==
    /\ reg.pc = "write"
    /\ rules' = RuleTableAfter
    /\ reg' = [reg EXCEPT !.pc = "idle", !.rule = 0, !.next = @ + 1]
    /\ UNCHANGED <<pats, router, routed, mapperVars, statsOn, ctx, th, batch,
                   hist>>

\* part_001:258-263: Reset, under m.mu, clears the store; without
\* statistics it returns
ResetClear ==
    /\ reg.pc = "idle"
    /\ reg.resets < MaxResets
    /\ data' = StoreClear(data)
    /\ reg' = [reg EXCEPT
                 !.pc = IF statsOn THEN "stats" ELSE "idle",
                 !.k = 1,
                 !.resets = IF statsOn THEN @ ELSE @ + 1,
                 !.quiet = \A t \in Threads : th[t].pc \in {"idle", "ret"},
                 !.calls0 = hist.calls]
    /\ UNCHANGED <<routerVars, routed, objs, pool, cache, stats, statsOn,
                   handled, ctx, th, batch, hist>>

\* part_001:264-273: one counter after the other is set to zero, then
\* Reset returns
ResetStat ==
    /\ reg.pc = "stats"
    /\ stats' = [stats EXCEPT ![StatOrder[reg.k]] = 0]
    /\ reg' = IF reg.k = Len(StatOrder)
              THEN [reg EXCEPT !.pc = "idle", !.k = 0, !.resets = @ + 1]
              ELSE [reg EXCEPT !.k = @ + 1]
    /\ UNCHANGED <<routerVars, routed, data, objs, pool, cache, statsOn,
                   handled, ctx, th, batch, hist>>

\* The call Mapper.LoadRules(rs), under the CEL mapper's m.mu
LoadRulesCall(rs) ==
    /\ reg.pc = "idle"
    /\ reg.loads < MaxLoads
    /\ LET r == MapperLoadRules(reg.loaded, rs)
       IN reg' = [reg EXCEPT !.set = rs, !.loaded = r.rules,
                             !.loadErr = r.err, !.loads = @ + 1]
    /\ UNCHANGED <<routerVars, routed, mapperVars, statsOn, ctx, th, batch,
                   hist>>

\* The program runs until the runtime stops it
Alive == \A t \in Threads : th[t].pc # "fatal"

\* Registration while a goroutine ingests
NextReg ==
    \/ Alive /\ CallProcess(1, AdminItems)
    \/ Alive /\ ProcessStep(1)
    \/ Alive /\ AddRulePattern
    \/ Alive /\ AddRuleWrite
    \/ Alive /\ AddRuleTable
    \/ Alive /\ \E rs \in RuleSets : LoadRulesCall(rs)

SpecReg == InitAdmin /\ [][NextReg]_vars

\* Reset while a goroutine ingests, on the rules of RuleSetup
NextReset ==
    \/ CallProcess(1, ResetItems)
    \/ ProcessStep(1)
    \/ ResetClear
    \/ ResetStat

SpecReset == InitMapper /\ [][NextReset]_vars

-----------------------------------------------------------------------------
(* Properties of registration and reset *)

\* The entity type of every rule of the set is registered
AllRegistered(rs) == \A i \in 1..Len(rs) : rs[i].Target \in RegisteredTypes

\* A step is the call of AddRule, of LoadRules
IsAddRule == reg.pc = "idle" /\ reg'.pc = "table"
IsLoadRules == reg'.loads = reg.loads + 1

\* C11, as stated: a step that adds a rule whose entity type is not
\* registered reports an error and leaves the active rules and the router
\* as they were: AddRule gives nothing to the router and the rule table,
\* LoadRules returns an error and keeps the rule list.
C11_AsStated ==
    [][/\ (IsAddRule /\ RuleSetup[reg'.rule].Entity \notin RegisteredTypes)
          => pats' = pats /\ router' = router /\ rules' = rules
       /\ (IsLoadRules /\ ~AllRegistered(reg'.set))
          => reg'.loadErr # "" /\ reg'.loaded = reg.loaded]_vars

-----------------------------------------------------------------------------
(* The object pool used directly, pool.go:29-52, next to goroutines that   *)
(* ingest: a client takes an instance, writes to it, and puts it back.     *)

\* The type names the client asks for: a registered one and one the pool
\* does not have
PoolTypes == {"host", "ghost"}

\* What the client writes to the instance it holds
PoolWrites ==
    { [field |-> "MACAddress", value |-> StrV(Items[1].value)],
      [field |-> "Active", value |-> BoolV(TRUE)] }

\* The client calls ObjectPool.Get(typeName)
PoolCall(t, typeName) ==
    /\ th[t].pc \in {"idle", "ret"}
    /\ hist.calls < MaxCalls
    /\ th' = [th EXCEPT ![t] = [IdleThread EXCEPT
                 !.pc = "pool_get", !.caller = "pool", !.rule = typeName]]
    /\ hist' = [hist EXCEPT !.calls = @ + 1]
    /\ UNCHANGED <<reg, routerVars, routed, mapperVars, statsOn, ctx, batch>>

\* pool.go:29-39: for a type the pool has, sync.Pool hands out an instance
\* of the reservoir or the result of New, the type's factory
PoolGet(t) ==
    /\ th[t].pc = "pool_get"
    /\ LET e == th[t].rule
       IN IF e \in DOMAIN pool
          THEN \E o \in pool[e] \cup {0} :
                 IF o = 0
                 THEN /\ objs' = Append(objs, Factory(e))
                      /\ pool' = pool
                      /\ th' = [th EXCEPT ![t].pc = "pool_held", ![t].fresh = TRUE,
                                  ![t].obj = Len(objs) + 1]
                 ELSE /\ objs' = objs
                      /\ pool' = [pool EXCEPT ![e] = @ \ {o}]
                      /\ th' = [th EXCEPT ![t].pc = "pool_held", ![t].fresh = FALSE,
                                  ![t].obj = o]
          ELSE /\ th' = [th EXCEPT ![t].pc = "ret"]
               /\ UNCHANGED <<objs, pool>>
    /\ UNCHANGED <<reg, routerVars, routed, data, cache, stats, statsOn,
                   handled, ctx, batch, hist>>

\* The client writes a field of the instance it holds, through the
\* registry's setter
PoolUse(t, w) ==
    /\ th[t].pc = "pool_held"
    /\ objs' = [objs EXCEPT ![th[t].obj] = Setter(@, w.field, w.value).obj]
    /\ th' = [th EXCEPT ![t].pc = "pool_used"]
    /\ hist' = [hist EXCEPT !.used = @ \cup {th[t].obj}]
    /\ UNCHANGED <<reg, routerVars, routed, data, pool, cache, stats, statsOn,
                   handled, ctx, batch>>

\* pool.go:41-52: the client puts the instance back, and keeps no
\* reference to it
PoolPut(t) ==
    /\ th[t].pc \in {"pool_held", "pool_used"}
    /\ LET e == th[t].rule
           o == th[t].obj
       IN IF e \in DOMAIN pool
          THEN /\ objs' = [objs EXCEPT ![o] = resetObject(@)]
               /\ pool' = [pool EXCEPT ![e] = @ \cup {o}]
          ELSE UNCHANGED <<objs, pool>>
    /\ th' = [th EXCEPT ![t] = [IdleThread EXCEPT !.pc = "ret", !.caller = "pool"]]
    /\ UNCHANGED <<reg, routerVars, routed, data, cache, stats, statsOn,
                   handled, ctx, batch, hist>>

\* Goroutine 1 is the client of the pool, goroutine 2 ingests
NextPool ==
    \/ \E e \in PoolTypes : PoolCall(1, e)
    \/ PoolGet(1)
    \/ \E w \in PoolWrites : PoolUse(1, w)
    \/ PoolPut(1)
    \/ CallProcess(2, ProcItems)
    \/ ProcessStep(2)

SpecPool == InitMapper /\ [][NextPool]_vars

\* A step in which ObjectPool.Get hands an instance to goroutine t: the
\* call of a client, or the call of ProcessContext (part_001:130)
HandsOut(t) ==
    \/ th[t].pc = "pool_get" /\ th'[t].pc = "pool_held"
    \/ th[t].pc = "get" /\ th'[t].pc = "upsert"
          /\ RuleOf(t).Entity \in DOMAIN pool

\* C15: every instance ObjectPool.Get hands out, to a client or to a
\* ProcessContext call, has every field at the zero value of its type.
C15_ZeroOnGet ==
    [][\A t \in Threads :
         HandsOut(t)
         => objs'[th'[t].obj] = Factory(objs'[th'[t].obj].type)]_vars

\* A ProcessContext call holds an instance from the reservoir that a
\* client had written to and put back; its fields are zero again.
C15_Witness ==
    \E t \in Threads :
      /\ th[t].pc = "upsert" /\ ~th[t].fresh
      /\ th[t].obj \in hist.used
      /\ objs[th[t].obj] = Factory("host")

\* A step is the store.Clear() of Reset; a step is the return of Reset
IsResetClear == reg.pc = "idle" /\ reg'.pc = "stats"
IsResetReturn == reg.pc = "stats" /\ reg'.pc = "idle"

\* Every installed entity stays installed, the same instance under its key
KeepsInstalled ==
    \A target \in DOMAIN data : \A key \in DOMAIN data[target] :
      /\ StoreHas(data', target, key)
      /\ data'[target][key] = data[target][key]

\* C16: (1) every step but the store.Clear() of Reset keeps every installed
\* entity, the same instance under the same key; (2) that step leaves the
\* store empty; (3) when Reset returns, and no ProcessContext call ran
\* while it did, the store is empty and every counter is zero; (4) every
\* step of Reset leaves the rule table and the router as they are, so that
\* when Reset returns every path is routed to the pattern, and the pattern
\* resolved to the rule, that the registration gave it.
C16_OnlyReset ==
    [][/\ ~IsResetClear => KeepsInstalled
       /\ IsResetClear => data' = NewMapStore
       /\ (IsResetReturn /\ reg.quiet /\ hist.calls = reg.calls0)
          => data' = NewMapStore /\ stats' = NewStats
       /\ reg' # reg => rules' = rules /\ pats' = pats /\ router' = router
       /\ IsResetReturn
          => \A i \in ResetItems :
               /\ Route(router', pats', Items[i].path)
                    = Route(Registered.router, Registered.pats, Items[i].path)
               /\ rules' = Registered.rules]_vars

\* One call wrote the MAC address of host:1, Reset ran at rest and
\* returned, and the same call made again was routed as before: it
\* installed a second instance under host:1 and wrote the address to it.
C16_Witness ==
    /\ reg.resets = 1 /\ reg.pc = "idle" /\ reg.quiet /\ reg.calls0 = 1
    /\ hist.calls = 2 /\ th[1].pc = "ret" /\ th[1].item = 1
    /\ Len(objs) = 2
    /\ StoreInstances(data) = {2}
    /\ stats.MatchedRules = 1 /\ stats.ProcessedLines = 1
    /\ StoreHas(data, "host", HostKey1)
    /\ objs[data["host"][HostKey1]].f.MACAddress = StrV(MacColons)

-----------------------------------------------------------------------------
(* Concurrent ingestion into one entity: goroutines call Process with      *)
(* paths of host 1, two of them writing its MACAddress and one its Active  *)
(* field (USAGE.md:246-254).                                               *)

\* 11-22-33-44-55-66 and n/a for Device.Hosts.Host.1.PhysAddress, and 1 for
\* Device.Hosts.Host.1.Active
ConcItems == {1, 2, 10}

\* CallProcess with an item of ConcItems, the item recorded
CallConc(t) ==
    /\ th[t].pc \in {"idle", "ret"}
    /\ hist.calls < MaxCalls
    /\ \E i \in ConcItems :
         /\ th' = [th EXCEPT ![t] = [IdleThread EXCEPT
                     !.pc = "route", !.caller = "single", !.ctxErr = ctx,
                     !.item = i]]
         /\ hist' = [hist EXCEPT !.calls = @ + 1, !.called = @ \cup {i}]
    /\ UNCHANGED <<reg, routerVars, routed, mapperVars, statsOn, ctx, batch>>

\* Two goroutines ingest
NextConc ==
    \/ \E t \in {1, 2} : CallConc(t)
    \/ \E t \in {1, 2} : ProcessStep(t)

SpecConc == InitMapper /\ [][NextConc]_vars

-----------------------------------------------------------------------------
(* Properties of concurrent ingestion *)

\* The contents of the store: the fields of every stored entity
Contents ==
    [e \in DOMAIN data |-> [k \in DOMAIN data[e] |-> objs[data[e][k]].f]]

\* The contents after one Process call with item i made on the contents c,
\* no other call under way
SeqApply(c, i) ==
    LET path == Items[i].path
        value == Items[i].value
    IN IF ~Resolves(path) THEN c
       ELSE LET R == RuleFor(path)
                key == Extract(R.Extractor, path, value)
                group == IF R.Entity \in DOMAIN c THEN c[R.Entity] ELSE <<>>
                old == IF key \in DOMAIN group THEN group[key]
                       ELSE Factory(R.Entity).f
                tv == Transformed(R, value)
                sv == setFieldValue(FieldTypes[R.Entity][R.Field], tv.v)
                wrote == tv.err = "" /\ HasSetter(R.Entity, R.Field) /\ sv.err = ""
            IN IF R.Entity \notin RegisteredTypes THEN c
               ELSE (R.Entity :>
                       ((key :> IF wrote THEN [old EXCEPT ![R.Field] = sv.v] ELSE old)
                          @@ group)) @@ c

RECURSIVE SeqRun(_, _, _)
SeqRun(c, order, n) ==
    IF n > Len(order) THEN c ELSE SeqRun(SeqApply(c, order[n]), order, n + 1)

\* The orders in which the calls of a set of items can be made one by one
Orders(S) ==
    {o \in [1..Cardinality(S) -> S] : \A i, j \in DOMAIN o : o[i] = o[j] => i = j}

AtRest == \A t \in Threads : th[t].pc \in {"idle", "ret"}

\* C17: whenever no Process call is under way, the contents of the store
\* are those that the calls made so far leave when they are made one after
\* the other in some order.
C17_AsStated ==
    AtRest => \E o \in Orders(hist.called) : Contents = SeqRun(<<>>, o, 1)

\* Two calls that write different fields of host 1 leave one host entity
\* with both fields set
DifferentFieldsBothSet ==
    (AtRest /\ hist.called = {1, 2})
        => /\ DOMAIN data = {"host"} /\ DOMAIN data["host"] = {HostKey1}
           /\ objs[data["host"][HostKey1]].f.MACAddress = StrV(MacColons)
           /\ objs[data["host"][HostKey1]].f.Active = BoolV(TRUE)

-----------------------------------------------------------------------------
(* The router with wildcard patterns of different prefix lengths           *)

\* A.*.C and A.*.* have the literal prefix "A.", A.X.* the prefix "A.X."
TieTexts ==
    { <<"A",".","*",".","C">>, <<"A",".","X",".","*">>,
      <<"A",".","*",".","*">> }

NextTie ==
    \/ \E text \in TieTexts : RegisterPattern(text)
    \/ \E path \in RouterPaths : RouteCall(path)

SpecTie == InitRouter /\ [][NextTie]_vars

-----------------------------------------------------------------------------
(* Properties of the prefix tier *)

\* A registered wildcard pattern with a literal prefix (a candidate of the
\* prefix tier) that passes the full match predicate for the path
PrefixCandidate(ref, path) ==
    /\ pats[ref].Prefix # EmptyStr /\ Len(pats[ref].WildcardPos) > 0
    /\ matchPatternFast(path, Len(path), pats[ref])

\* C18: when two wildcard patterns with a literal prefix both pass the full
\* match predicate for the routed path, Route does not return the one that
\* was registered later.
C18_AsStated ==
    routed.done =>
        \A a, b \in 1..Len(pats) :
            (a < b /\ PrefixCandidate(a, routed.path)
                   /\ PrefixCandidate(b, routed.path))
            => (routed.res.ok /\ routed.res.pat # b)

\* The same for two patterns of one prefix length
SamePrefixFirstWins ==
    routed.done =>
        \A a, b \in 1..Len(pats) :
            (a < b /\ PrefixCandidate(a, routed.path)
                   /\ PrefixCandidate(b, routed.path)
                   /\ Len(pats[a].Prefix) = Len(pats[b].Prefix))
            => (routed.res.ok /\ routed.res.pat # b)

-----------------------------------------------------------------------------
(* Properties of registration next to ingestion *)

\* C19: while AddRule runs next to Process, no Process call returns the
\* error "rule not found", and no lookup of the rule table is made while
\* AddRule writes it.
C19_AsStated ==
    /\ \A t \in Threads : th[t].ret # "rule not found"
    /\ ~hist.raced

\* The first half alone: no call returns "rule not found"
NoRuleNotFound == \A t \in Threads : th[t].ret # "rule not found"

\* The second half alone: no lookup is made during the write
NoRacingLookup == ~hist.raced

-----------------------------------------------------------------------------
(* Properties of the full match predicate *)

\* The path has as many "."-separated segments as the pattern text, empty
\* ones counted, and each segment of the text that is not "*" equals the
\* segment of the path at its position
SegmentsAgree(text, path) ==
    LET want == Split(text)
        have == Split(path)
    IN /\ Len(have) = Len(want)
       /\ \A i \in 1..Len(want) : want[i] = <<"*">> \/ want[i] = have[i]

\* C20: for every registered pattern with a wildcard segment and the path
\* routed, the full match predicate holds exactly when the segments agree.
C20_AsStated ==
    routed.done =>
        \A ref \in 1..Len(pats) :
            Len(pats[ref].WildcardPos) > 0
            => (matchPatternFast(routed.path, Len(routed.path), pats[ref])
                  <=> SegmentsAgree(pats[ref].OriginalPath, routed.path))

\* The same for the paths that do not end in a dot and are not empty
AgreeWithoutTrailingDot ==
    (routed.done /\ routed.path # EmptyStr
                 /\ routed.path[Len(routed.path)] # ".")
    => \A ref \in 1..Len(pats) :
            Len(pats[ref].WildcardPos) > 0
            => (matchPatternFast(routed.path, Len(routed.path), pats[ref])
                  <=> SegmentsAgree(pats[ref].OriginalPath, routed.path))

-----------------------------------------------------------------------------
(* The router with exact patterns, the empty text among them *)

\* The empty text, A.X.C, A.*.C and A*
ScanTexts ==
    { EmptyStr, <<"A",".","X",".","C">>, <<"A",".","*",".","C">>, <<"A","*">> }

NextScan ==
    \/ \E text \in ScanTexts : RegisterPattern(text)
    \/ \E path \in RouterPaths : RouteCall(path)

SpecScan == InitRouter /\ [][NextScan]_vars

-----------------------------------------------------------------------------
(* Properties of the tiers against a linear scan *)

\* What a linear scan asks of a registered pattern: an exact pattern (one
\* compiled from a text without "*") has the path as its text, any other
\* passes the full match predicate
ScanAccepts(ref, path) ==
    IF ~ContainsStar(pats[ref].OriginalPath)
    THEN pats[ref].OriginalPath = path
    ELSE matchPatternFast(path, Len(path), pats[ref])

\* C21: Route reports a match exactly when a linear scan accepts some
\* registered pattern, and the pattern it returns is one the scan accepts.
C21_AsStated ==
    routed.done =>
        /\ routed.res.ok <=> \E ref \in 1..Len(pats) : ScanAccepts(ref, routed.path)
        /\ routed.res.ok => ScanAccepts(routed.res.pat, routed.path)

\* The same when no registered pattern has the empty text
ScanAgreesNonEmpty ==
    (routed.done /\ \A ref \in 1..Len(pats) : pats[ref].OriginalPath # EmptyStr)
    => /\ routed.res.ok <=> \E ref \in 1..Len(pats) : ScanAccepts(ref, routed.path)
       /\ routed.res.ok => ScanAccepts(routed.res.pat, routed.path)

-----------------------------------------------------------------------------
(* Rule addition and the link from a pattern to its rule: AddRule calls in *)
(* the manner of setupWifiRules (main.go:195-213), then ingestion.         *)

\* The AddRule calls of one run
MaxAdds == 2

\* The rules added: wifi_raw on the Channel pattern; the band rule of
\* main.go:204-213, which setupWifiRules adds with the Pattern object of the
\* rule before it; and a host rule that carries the ID wifi_raw as well
LinkRules ==
    << RuleSetup[3],
       [ID |-> "wifi_band", text |-> RuleSetup[3].text, Entity |-> "wifi",
        Field |-> "Band", Transform |-> EmptyStr,
        Extractor |-> IndexExtractor(3, WifiPrefix)],
       [RuleSetup[1] EXCEPT !.ID = "wifi_raw"] >>

\* A Channel path and a PhysAddress path
LinkItems == {4, 1}

\* m.AddRule(rule) before ingestion begins (part_001:89-96): the rule's
\* Pattern is a newly compiled one (main.go:189-193) or, when share holds,
\* the Pattern object of the AddRule call before (main.go:204-206)
AddRuleLink(k, share) ==
    /\ hist.calls = 0
    /\ Len(hist.link) < MaxAdds
    /\ share => Len(pats) > 0
    /\ LET r == LinkRules[k]
           m == [pats |-> pats, router |-> router, rules |-> rules]
           m1 == IF share THEN AddRule(m, FastRuleOf(r, Len(pats)))
                 ELSE LoadRule(m, r)
           ref == Len(m1.pats)
           rule == FastRuleOf(r, ref)
       IN /\ pats' = m1.pats
          /\ router' = m1.router
          /\ rules' = m1.rules
          /\ hist' = [hist EXCEPT !.link = Append(@, [ref |-> ref, rule |-> rule])]
    /\ UNCHANGED <<reg, routed, mapperVars, statsOn, ctx, th, batch>>

NextLink ==
    \/ \E k \in DOMAIN LinkRules, share \in BOOLEAN : AddRuleLink(k, share)
    \/ CallProcess(1, LinkItems)
    \/ ProcessStep(1)

SpecLink == InitAdmin /\ [][NextLink]_vars

-----------------------------------------------------------------------------
(* Properties of the link from pattern to rule *)

\* The rules that AddRule was called with for the pattern object ref
AddedWith(ref) ==
    {hist.link[i].rule : i \in {j \in DOMAIN hist.link : hist.link[j].ref = ref}}

\* The call of goroutine t has looked up its rule and not yet returned
HasRule(t) == th[t].pc \in {"get", "upsert", "put", "transform", "set"}

\* C22: the rule a Process call applies to the pattern Route returned is the
\* one rule that pattern was added with.
C22_AsStated ==
    \A t \in Threads : HasRule(t) => AddedWith(th[t].pat) = {RuleOf(t)}

\* The same when every AddRule call has an ID and a Pattern object of its
\* own
LinkedWhenDistinct ==
    (\A i, j \in DOMAIN hist.link :
        i # j => /\ hist.link[i].ref # hist.link[j].ref
                 /\ hist.link[i].rule.ID # hist.link[j].rule.ID)
    => \A t \in Threads : HasRule(t) => AddedWith(th[t].pat) = {RuleOf(t)}

-----------------------------------------------------------------------------
(* Properties of the allocation and reuse counters *)

\* Goroutine t takes the step of ProcessContext that obtains the candidate
\* instance
ObtainsCandidate(t) == th[t].pc = "get" /\ th'[t].pc # "get"

\* C23: the step of a matched call that obtains the candidate increments
\* exactly one of AllocCount and ReuseCount: ReuseCount only for an instance
\* that was put into the pool before, AllocCount for one the factory has
\* just made.
C23_AsStated ==
    [][\A t \in Threads :
         ObtainsCandidate(t) =>
            LET allocs == stats'.AllocCount - stats.AllocCount
                reuses == stats'.ReuseCount - stats.ReuseCount
            IN /\ allocs + reuses = 1
               /\ reuses = 1 => ~th'[t].fresh
               /\ th'[t].fresh => allocs = 1]_vars

\* What the code keeps of it: a call that obtains an instance increments
\* exactly one of the two counters
OneCounterPerCandidate ==
    [][\A t \in Threads :
         (ObtainsCandidate(t) /\ th'[t].pc = "upsert") =>
            (stats'.AllocCount - stats.AllocCount)
              + (stats'.ReuseCount - stats.ReuseCount) = 1]_vars

-----------------------------------------------------------------------------
(* Properties of the running counters *)

-----------------------------------------------------------------------------
(* The transform cache on its own: a goroutine calls                       *)
(* FastTransform.Transform(name, value), transform.go:190-201.             *)

\* The names: bool of the table, and two names that are not registered
\* (Apply passes their values through)
TransformNames == { BoolName, <<"a">>, <<"a",":","b">> }

TransformValues == { <<"1">>, <<"m","a","y","b","e">>, <<"c">>, <<"b",":","c">> }

\* result, err := ft.Transform(name, value): goroutine 1 has the result in
\* final and the error in ret
TransformCall(name, value) ==
    /\ LET tr == Transform(cache, name, value)
       IN /\ cache' = tr.cache
          /\ th' = [th EXCEPT ![1] = [IdleThread EXCEPT
                      !.pc = "ret", !.caller = "transform",
                      !.final = tr.res.v, !.ret = tr.res.err]]
    /\ hist' = [hist EXCEPT !.tcall =
                  [made |-> TRUE, name |-> name, value |-> value,
                   colon |-> @.colon \/ (\E i \in DOMAIN name : name[i] = ":")]]
    /\ UNCHANGED <<reg, routerVars, routed, data, objs, pool, stats, statsOn,
                   handled, ctx, batch>>

NextCache ==
    \E name \in TransformNames, value \in TransformValues :
        TransformCall(name, value)

SpecCache == InitMapper /\ [][NextCache]_vars

-----------------------------------------------------------------------------
(* Properties of the transform cache *)

\* The last Transform call returned what Apply returns for its arguments
ReturnsApply ==
    LET r == Apply(hist.tcall.name, hist.tcall.value)
    IN th[1].ret = r.err /\ (r.err = "" => th[1].final = r.v)

\* C25: every Transform(name, value) call returns what Apply(name, value)
\* returns.
C25_AsStated == hist.tcall.made => ReturnsApply

\* The same as long as no name with a ":" was used
ReturnsApplyNoColon == (hist.tcall.made /\ ~hist.tcall.colon) => ReturnsApply

-----------------------------------------------------------------------------
(* The key extractor on its own: a goroutine calls                         *)
(* (&IndexExtractor{Position, Prefix}).Extract(path, value),               *)
(* router.go:311-325.                                                      *)

\* The positions: one below zero, and zero up to MaxSegs
ExtractPositions == (0 - 1)..MaxSegs

\* No prefix, and the prefix k:
ExtractPrefixes == { EmptyStr, <<"k",":">> }

\* key := e.Extract(path, value), once: goroutine 1 has the key
ExtractCall(e, path) ==
    /\ ~hist.xcall.made
    /\ th' = [th EXCEPT ![1] = [IdleThread EXCEPT
                !.pc = "ret", !.caller = "extract",
                !.key = Extract(e, path, EmptyStr)]]
    /\ hist' = [hist EXCEPT !.xcall =
                  [made |-> TRUE, path |-> path, pos |-> e.Position,
                   prefix |-> e.Prefix]]
    /\ UNCHANGED <<reg, routerVars, routed, mapperVars, statsOn, ctx, batch>>

NextExtract ==
    \E n \in ExtractPositions, prefix \in ExtractPrefixes, path \in RouterPaths :
        ExtractCall(IndexExtractor(n, prefix), path)

SpecExtract == InitMapper /\ [][NextExtract]_vars

-----------------------------------------------------------------------------
(* Properties of the key extractor *)

\* The key for position n and a prefix when the path has the segments parts
KeyOfSegments(parts, n, prefix) ==
    IF n < 0 \/ n >= Len(parts) THEN EmptyStr ELSE prefix \o parts[n + 1]

\* C26: Extract returns the prefix and segment N of the path split on ".",
\* empty segments counted, and the empty string when N is out of range.
C26_AsStated ==
    hist.xcall.made =>
        th[1].key = KeyOfSegments(Split(hist.xcall.path),
                                  hist.xcall.pos, hist.xcall.prefix)

\* The same against the segments the router's matchParts compares
C26_AsRouterSplits ==
    hist.xcall.made =>
        th[1].key = KeyOfSegments(splitPathFast(hist.xcall.path),
                                  hist.xcall.pos, hist.xcall.prefix)

\* The same for the paths without an empty segment
KeyOfFullSegments ==
    (hist.xcall.made
       /\ \A i \in DOMAIN Split(hist.xcall.path) : Split(hist.xcall.path)[i] # EmptyStr)
    => th[1].key = KeyOfSegments(Split(hist.xcall.path),
                                 hist.xcall.pos, hist.xcall.prefix)

-----------------------------------------------------------------------------
(* Properties of the order of writes on one call path *)

\* The MACAddress that item 10 leaves, and the cache key item 1 leaves
NotAvailable == <<"n","/","a">>
CacheKeyItem1 == CacheKey(MacNormalizeName, Items[1].value)

\* C27: on a single call path, when the call for an item that writes a
\* field has returned, the field holds that item's value, whatever the
\* items before it wrote there.
C27_LaterWins ==
    (th[1].pc = "ret" /\ th[1].caller = "single" /\ WritesItem(th[1].item))
    => FieldIs(th[1].item)

\* Two successive calls wrote MACAddress of host:1: the call with
\* 11-22-33-44-55-66 first (its result is in the transform cache), the call
\* with n/a second, and the field holds n/a.
C27_Witness ==
    /\ hist.calls = 2 /\ th[1].pc = "ret" /\ th[1].item = 10
    /\ CacheKeyItem1 \in DOMAIN cache
    /\ Len(objs) = 2 /\ StoreInstances(data) = {1}
    /\ objs[1].f.MACAddress = StrV(NotAvailable)

\* The same on the sequential path of a batch
BatchLaterWins ==
    (Sequential /\ th[1].pc = "ret" /\ th[1].caller = "batch"
                /\ WritesItem(th[1].item))
    => FieldIs(th[1].item)

-----------------------------------------------------------------------------
(* The setter of a signed integer field on its own: registry.go:169-177    *)
(* with an int64 or a uint64 argument.                                     *)

\* The widths of the fields: that of int64, and half of it
FieldBits == { WordBits, WordBits \div 2 }

\* Every int64 and every uint64
IntInputs ==
    {IntV(n) : n \in (0 - Pow2(WordBits - 1))..(Pow2(WordBits - 1) - 1)}
        \cup {UintV(n) : n \in 0..(Pow2(WordBits) - 1)}

\* The value the field holds before the call
PreviousInt == IntV(1)

\* err := setter(obj, value) on a field of the given width, once:
\* goroutine 1 has the error in ret and the field afterwards in final
SetIntCall(bits, value) ==
    /\ ~hist.scall.made
    /\ LET r == setIntField(bits, value)
       IN th' = [th EXCEPT ![1] = [IdleThread EXCEPT
                   !.pc = "ret", !.caller = "setter", !.ret = r.err,
                   !.final = IF r.err = "" THEN r.v ELSE PreviousInt]]
    /\ hist' = [hist EXCEPT !.scall =
                  [made |-> TRUE, bits |-> bits, kind |-> value.k, n |-> value.n]]
    /\ UNCHANGED <<reg, routerVars, routed, mapperVars, statsOn, ctx, batch>>

NextSetInt ==
    \E bits \in FieldBits, value \in IntInputs : SetIntCall(bits, value)

SpecSetInt == InitMapper /\ [][NextSetInt]_vars

-----------------------------------------------------------------------------
(* Properties of the integer setter *)

\* The numeric value of the argument is one a signed field of the width
\* can hold
Representable ==
    /\ hist.scall.n >= 0 - Pow2(hist.scall.bits - 1)
    /\ hist.scall.n <= Pow2(hist.scall.bits - 1) - 1

\* C28: an argument whose numeric value the field cannot hold is rejected
\* with an error, and the field keeps its value.
C28_AsStated ==
    (hist.scall.made /\ ~Representable)
    => (th[1].ret # "" /\ th[1].final = PreviousInt)

\* The same for the arguments of type int64
SignedOverflowDetected ==
    (hist.scall.made /\ ~Representable /\ hist.scall.kind = "int64")
    => (th[1].ret # "" /\ th[1].final = PreviousInt)

\* An argument the field can hold is assigned
RepresentableAssigned ==
    (hist.scall.made /\ Representable)
    => (th[1].ret = "" /\ th[1].final = IntV(hist.scall.n))

-----------------------------------------------------------------------------
(* The pool and the store never share an instance *)

\* The instances a step puts into the pool
PutBy == UNION {pool'[e] \ pool[e] : e \in DOMAIN pool}

\* C29: in every state of interleaved Process calls no instance is both
\* installed in the store and in the pool or held as a candidate; and a step
\* that puts an instance into the pool puts one the store does not hold, and
\* zeroes no instance the store holds.
C29_PoolApartFromStore ==
    /\ [](/\ Pooled \cap StoreInstances(data) = {}
          /\ Held \cap StoreInstances(data) = {})
    /\ [][PutBy # {}
           => /\ PutBy \cap StoreInstances(data) = {}
              /\ \A o \in StoreInstances(data) : objs'[o] = objs[o]]_vars

\* The loser of an upsert race was zeroed and pooled, and another call now
\* holds it as its candidate for the key the store already has, next to the
\* written instance the store installed.
C29_Witness ==
    \E t \in Threads :
      /\ th[t].pc = "put" /\ ~th[t].fresh
      /\ th[t].obj \notin StoreInstances(data)
      /\ th[t].existing \in StoreInstances(data)
      /\ objs[th[t].existing] # resetObject(objs[th[t].existing])
      /\ stats.ReuseCount = 3

-----------------------------------------------------------------------------
(* Reset while a call is between its upsert and its setter *)

\* The step by which the ingesting goroutine's call returns success from
\* its setter, when a Reset has returned and none is in progress
ReturnsAfterReset ==
    /\ reg.resets >= 1 /\ reg.pc = "idle"
    /\ th[1].pc = "set" /\ th'[1].pc = "ret" /\ th'[1].ret = ""
    /\ WritesItem(th[1].item)

\* The field write of item i is in the store after the step
FieldIsNext(i) ==
    LET R == RuleFor(Items[i].path)
        key == Extract(R.Extractor, Items[i].path, Items[i].value)
        sv == setFieldValue(FieldTypes[R.Entity][R.Field],
                            Transformed(R, Items[i].value).v)
    IN /\ StoreHas(data', R.Entity, key)
       /\ objs'[data'[R.Entity][key]].f[R.Field] = sv.v

\* C30, as stated: a matched call that returns success after Reset has
\* returned leaves its field write in the store at its entity and key.
C30_AsStated == [][ReturnsAfterReset => FieldIsNext(th[1].item)]_vars

\* A call that began after the latest Reset cleared the store leaves its
\* field write in the store when it returns success.
WriteObservableWhenBegunAfter ==
    [][(ReturnsAfterReset /\ hist.calls > reg.calls0)
         => FieldIsNext(th[1].item)]_vars

\* A call has written and returned success after Reset returned, and the
\* store is empty: the instance written is the one Reset dropped.
WroteDroppedInstance ==
    /\ reg.resets >= 1 /\ reg.pc = "idle" /\ hist.calls = reg.calls0
    /\ th[1].pc = "ret" /\ th[1].ret = "" /\ WritesItem(th[1].item)
    /\ StoreInstances(data) = {}
    /\ \E o \in 1..Len(objs) : objs[o] # resetObject(objs[o])

====
